---- MODULE Spec2Model ----
(***************************************************************************)
(* State-machine model of the pellet stove device                          *)
(* (src/drivers/pellet_stove/device.ts): the polling scheduler             *)
(* (startPolling / stopPolling / scheduleNextPoll / pollStatus), the       *)
(* command path (sendCommand) and the pellet inventory estimator           *)
(* (updatePelletsFromConsumption, setPelletsRemaining, applyErrorState).   *)
(*                                                                         *)
(* Granularity.  The handlers are async functions.  The model interleaves  *)
(* them at the awaits on the stove's HTTP client (api.getStatus,           *)
(* api.postStatus), which last up to the request timeout.  The awaits on   *)
(* the platform's stores (capabilities, settings, store, warnings) are     *)
(* taken together with the code around them.                               *)
(*                                                                         *)
(* Numbers.  Weights are integers counting half kilograms, so that the     *)
(* Math.round in clampPelletsValue is modelled on non-integer values too.  *)
(*                                                                         *)
(* Strings.  The strings the stove client computes (PIN, nonce, hashes,    *)
(* request bodies) and the error codes and messages are sequences of       *)
(* tokens; the empty sequence stands for null and for the empty string,    *)
(* which the code tests alike (truthiness).  The booleans of a status      *)
(* document and of the capabilities are the JSON texts "true" and "false". *)
(***************************************************************************)
EXTENDS Integers, Sequences, FiniteSets, TLC

VARIABLES
    phase,                 \* "constructed" | "running" | "deleted"
    settings,              \* the platform's settings store (raw values)
    address,               \* api.address
    pollInterval,          \* this.pollInterval (seconds)
    pollTimer,             \* this.pollTimer: "null" | "pending" | "fired"
    pollTimerDelay,        \* delay (seconds) of the timer this.pollTimer names
    strayTimers,           \* pending timers this.pollTimer no longer names
    pollInFlight,          \* this.pollInFlight
    passes,                \* pollStatus bodies awaiting api.getStatus
    posting,               \* sendCommand invocations awaiting api.postStatus
    errorCount,            \* this.errorCount
    available,             \* setAvailable / setUnavailable
    pelletsRemainingKg,    \* this.pelletsRemainingKg (half kg, or Null)
    lastConsumptionKg,     \* this.lastConsumptionKg (half kg, or Null)
    pelletsAutoResetMode,  \* this.pelletsAutoResetMode
    pelletsMaxKg,          \* this.pelletsMaxKg (half kg)
    pelletsHoldAutoReset,  \* this.pelletsHoldAutoReset
    ecoEditable,           \* this.ecoEditable
    lastErrorCode,         \* this.lastErrorCode (<<>> for null)
    lastErrorMessage,      \* this.lastErrorMessage (<<>> for null)
    warning,               \* setWarning / unsetWarning (<<>> for none)
    caps,                  \* the platform's capability values
    lastCommandPayload,    \* this.lastCommandPayload and lastCommandAt: <<>> or <<payload>>
    apiPin,                \* api.pin
    nonce,                 \* api.nonce (<<>> for null)
    hspin,                 \* api.hspin (<<>> for null)
    prefetching,           \* api.postStatus calls awaiting their own getStatus
    language,              \* the language this.homey.__ translates to
    suppressSettingsUpdate, \* this.suppressSettingsUpdate
    settingsWrites,        \* passes awaiting this.setSettings (updateSettingsSafely)
    event,                 \* history: the step that led to this state
    hopperFault,           \* history: "none" | "standing" | "overridden"
    polledEcoEditable      \* history: the last meta.eco_editable flag polled

vars == <<phase, settings, address, pollInterval, pollTimer, pollTimerDelay,
          strayTimers, pollInFlight, passes, posting, errorCount, available,
          pelletsRemainingKg, lastConsumptionKg, pelletsAutoResetMode,
          pelletsMaxKg, pelletsHoldAutoReset, ecoEditable, lastErrorCode,
          lastErrorMessage, warning, caps, lastCommandPayload, apiPin, nonce,
          hspin, prefetching, language, suppressSettingsUpdate,
          settingsWrites, event, hopperFault, polledEcoEditable>>

schedVars == <<pollTimer, pollTimerDelay, strayTimers, pollInFlight, passes,
               posting, errorCount, available>>

pelletVars == <<pelletsRemainingKg, lastConsumptionKg, pelletsHoldAutoReset>>

configVars == <<address, pollInterval, pelletsAutoResetMode, pelletsMaxKg>>

errorVars == <<lastErrorCode, lastErrorMessage, warning>>

apiVars == <<apiPin, nonce, hspin, prefetching>>

writeVars == <<suppressSettingsUpdate, settingsWrites>>

----------------------------------------------------------------------------
(* Values *)

Null == -1
Absent == -2

Kg(n) == 2 * n

\* Temperatures are integers counting half thousandths of a degree.
Degrees(n) == 2000 * n

Abs(x) == IF x < 0 THEN 0 - x ELSE x

DEFAULT_PELLETS_KG == 15
MIN_PELLETS_KG == 0
DEFAULT_MAX_PELLETS_KG == 30
DEFAULT_POLL_INTERVAL == 10

Min2(a, b) == IF a < b THEN a ELSE b
Max2(a, b) == IF a > b THEN a ELSE b

\* Math.round on half kilograms: the nearest integer kg, halves towards +infinity.
Round(h) == 2 * ((h + 1) \div 2)

----------------------------------------------------------------------------
(* Bounds *)

MaxPending == 3
MaxErrors == 2

----------------------------------------------------------------------------
(* Parsing of raw settings (module-level helpers of device.ts) *)

\* Number(settings.pollInterval ?? 10), kept when finite and > 0, else 10.
parsePollInterval(raw) ==
    IF raw = Absent \/ raw <= 0 THEN DEFAULT_POLL_INTERVAL ELSE raw

parsePelletsAutoResetMode(raw) ==
    IF raw = "reset15" \/ raw = "reset30" THEN raw ELSE "none"

parsePelletsMaxKg(raw) ==
    IF raw = Absent THEN Kg(DEFAULT_MAX_PELLETS_KG)
    ELSE Max2(Kg(MIN_PELLETS_KG), raw)

getPelletsAutoResetValue(mode) ==
    IF mode = "reset15" THEN Kg(15)
    ELSE IF mode = "reset30" THEN Kg(30)
    ELSE Null

----------------------------------------------------------------------------
(* Pellet inventory estimator.  P is the record [rem, last, hold] of        *)
(* pelletsRemainingKg, lastConsumptionKg and pelletsHoldAutoReset.          *)

PelletState == [rem |-> pelletsRemainingKg, last |-> lastConsumptionKg,
                hold |-> pelletsHoldAutoReset]

\* Mutant of clampPelletsValue: the upper bound is forgotten.
clampPelletsLowerOnly(value, maxKg) == Max2(Kg(MIN_PELLETS_KG), Round(value))

\* The values this model passes are finite, so the non-finite branch
\* (return DEFAULT_PELLETS_KG) is never taken.
clampPelletsValue(value, maxKg) ==
    Min2(maxKg, Max2(Kg(MIN_PELLETS_KG), Round(value)))

setPelletsRemaining(P, value, maxKg) ==
    [P EXCEPT !.rem = clampPelletsValue(value, maxKg)]

\* Mutant of consumptionDelta: a negative delta is kept.
consumptionDeltaSigned(consumptionKg, last) == consumptionKg - last

\* delta of updatePelletsFromConsumption: negative deltas are floored at 0.
consumptionDelta(consumptionKg, last) ==
    IF consumptionKg - last < 0 THEN 0 ELSE consumptionKg - last

\* nextRemaining before the auto-reset rule (line 457).
clampedRemaining(P, consumptionKg, maxKg) ==
    clampPelletsValue(P.rem - consumptionDelta(consumptionKg, P.last), maxKg)

\* Mutant of autoResetRule: the hold-flag is not looked at.
autoResetIgnoringHold(nextRemaining, mode, hold) ==
    IF nextRemaining = 0 /\ getPelletsAutoResetValue(mode) # Null
    THEN getPelletsAutoResetValue(mode)
    ELSE nextRemaining

\* The auto-reset rule (lines 459-464).
autoResetRule(nextRemaining, mode, hold) ==
    IF nextRemaining = 0
       /\ getPelletsAutoResetValue(mode) # Null
       /\ ~hold
    THEN getPelletsAutoResetValue(mode)
    ELSE nextRemaining

\* Mutant of updatePelletsFromConsumption: the first report is taken as a
\* report after a baseline of 0.
updatePelletsWithoutBaseline(P, consumptionKg, mode, maxKg) ==
    setPelletsRemaining(
        [P EXCEPT !.last = consumptionKg],
        autoResetRule(clampPelletsValue(P.rem - consumptionKg, maxKg), mode, P.hold),
        maxKg)

\* pelletsRemainingKg is set by onInit before the first poll, so the
\* re-initialisation of line 437 is not reached.
updatePelletsFromConsumption(P, consumptionKg, mode, maxKg) ==
    IF P.last = Null
    THEN [P EXCEPT !.last = consumptionKg]
    ELSE setPelletsRemaining(
             [P EXCEPT !.last = consumptionKg],
             autoResetRule(clampedRemaining(P, consumptionKg, maxKg), mode, P.hold),
             maxKg)

\* The faults that mean an empty hopper (line 674).
isHopperFault(errorNumber) == errorNumber = 21 \/ errorNumber = 26

\* Mutant of applyErrorStatePellets: a hopper fault empties the inventory
\* and does not set the hold-flag.
applyErrorStateWithoutHold(P, errorNumber, maxKg) ==
    IF errorNumber = Absent THEN P
    ELSE IF errorNumber = 0 THEN [P EXCEPT !.hold = FALSE]
    ELSE IF isHopperFault(errorNumber)
         THEN setPelletsRemaining(P, 0, maxKg)
         ELSE [P EXCEPT !.hold = FALSE]

\* The part of applyErrorState that acts on the inventory (lines 657-679).
applyErrorStatePellets(P, errorNumber, maxKg) ==
    IF errorNumber = Absent THEN P
    ELSE IF errorNumber = 0 THEN [P EXCEPT !.hold = FALSE]
    ELSE IF isHopperFault(errorNumber)
         THEN setPelletsRemaining([P EXCEPT !.hold = TRUE], 0, maxKg)
         ELSE [P EXCEPT !.hold = FALSE]

\* applyStatus on the inventory: error state first, then the consumption.
applyStatusPellets(P, status, mode, maxKg) ==
    LET afterError == applyErrorStatePellets(P, status.fault, maxKg)
    IN  IF status.consumption = Absent THEN afterError
        ELSE updatePelletsFromConsumption(afterError, status.consumption, mode, maxKg)

\* Mutant of handlePelletsOverride: the hold-flag is not cleared.
handlePelletsOverrideKeepingHold(P, value, maxKg) ==
    setPelletsRemaining(P, value, maxKg)

\* handlePelletsOverride with a numeric value.
handlePelletsOverride(P, value, maxKg) ==
    setPelletsRemaining([P EXCEPT !.hold = FALSE], value, maxKg)

\* initializePelletsState: the stored value, else the pellets_kg setting,
\* else the default, clamped; the stored consumption baseline.
initializePelletsState(storedRemaining, storedConsumption, configuredRemaining, maxKg) ==
    [rem  |-> IF storedRemaining # Absent
              THEN clampPelletsValue(storedRemaining, maxKg)
              ELSE IF configuredRemaining # Absent
                   THEN clampPelletsValue(configuredRemaining, maxKg)
                   ELSE clampPelletsValue(Kg(DEFAULT_PELLETS_KG), maxKg),
     last |-> IF storedConsumption # Absent THEN storedConsumption ELSE Null,
     hold |-> FALSE]

\* Whether applyStatus reaches setPelletsRemaining: on a hopper fault, and on
\* every consumption report but the first.
applyStatusWritesPellets(P, status) ==
    \/ (status.fault # Absent /\ isHopperFault(status.fault))
    \/ (status.consumption # Absent /\ P.last # Null)

\* updatePelletsSetting: setPelletsRemaining is always called with
\* updateSetting, and leaves the pellets_kg setting equal to the remaining value.
updatePelletsSetting(s, called, value) ==
    IF called THEN [s EXCEPT !.pellets_kg = value] ELSE s

SetPellets(P) ==
    /\ pelletsRemainingKg' = P.rem
    /\ lastConsumptionKg' = P.last
    /\ pelletsHoldAutoReset' = P.hold

----------------------------------------------------------------------------
(* Status values, error codes and messages *)

\* coerceBoolean on the JSON text of a status value.
coerceBoolean(raw) ==
    IF raw \in {"true", "1", "yes", "on"} THEN "true"
    ELSE IF raw \in {"false", "0", "no", "off"} THEN "false"
    ELSE "undefined"

DigitChars == <<"0", "1", "2", "3", "4", "5", "6", "7", "8", "9">>

RECURSIVE Digits(_)
\* String(n) of a natural number.
Digits(n) ==
    IF n < 10 THEN <<DigitChars[n + 1]>>
    ELSE Digits(n \div 10) \o <<DigitChars[(n % 10) + 1]>>

\* padStart(3, '0')
padStart3(digits) ==
    IF Len(digits) = 1 THEN <<"0", "0">> \o digits
    ELSE IF Len(digits) = 2 THEN <<"0">> \o digits
    ELSE digits

formatErrorCode(errorNumber) ==
    IF errorNumber >= 1000 THEN <<"F">> \o Digits(errorNumber)
    ELSE <<"F">> \o padStart3(Digits(errorNumber))

\* The fault numbers ERROR_CODE_MAP has causes for.
KnownErrorNumbers ==
    {1, 2, 3, 5, 6, 7, 8, 9, 11, 12, 13, 14, 15, 18, 21, 22, 23, 24, 26, 27, 28,
     33, 34, 40, 41, 43, 50, 60, 1000}

\* this.homey.__(key): the text of the key in the platform's language.
translate(key) == <<language, "/">> \o key

\* formatErrorMessage with the translated causes of the number, or the
\* translation of errors.unknown.
formatErrorMessage(errorNumber) ==
    formatErrorCode(errorNumber) \o <<": ">> \o
        (IF errorNumber \in KnownErrorNumbers
         THEN translate(<<"errors.">> \o Digits(errorNumber))
         ELSE translate(<<"errors.unknown">>))

----------------------------------------------------------------------------
(* applyStatus on the device.  D is the record of the device state a pass   *)
(* works on: P (the inventory), code, message, warning, eco (ecoEditable),  *)
(* caps, setting (the pellets_kg setting), and what the pass did so far:    *)
(* writes (capabilities written), triggers (flow cards fired), stored (keys *)
(* of the store written), warned, notified.  failing names the platform     *)
(* calls that reject during the pass: a capability id for its               *)
(* setCapabilityValue, a flow card id for its trigger, "createNotification", *)
(* "setWarning", "unsetWarning", "setStoreValue", "setSettings".  thrown    *)
(* tells that a rejection was not caught: the steps after it do not run.    *)
(* wrote tells that updateSettingsSafely was called.                        *)

NoCaps ==
    [measure_stove_pellets |-> Null, stove_pellets_actual |-> Null,
     stove_error_state |-> "null", stove_error_code |-> <<"null">>,
     stove_eco_mode |-> "null", stove_weekprogram_active |-> "null",
     onoff |-> "null", target_temperature |-> Null]

Device ==
    [P |-> PelletState, code |-> lastErrorCode, message |-> lastErrorMessage,
     warning |-> warning, eco |-> ecoEditable, caps |-> caps,
     setting |-> settings.pellets_kg, wrote |-> FALSE, failing |-> {},
     thrown |-> FALSE,
     writes |-> {}, triggers |-> {}, stored |-> {}, warned |-> FALSE,
     notified |-> FALSE]

\* The flow card triggerCapabilityFlow fires for a capability;
\* stove_pellets_actual is present (syncCapabilities), so
\* measure_stove_pellets fires none.
triggerCapabilityFlow(capabilityId) ==
    IF capabilityId = "stove_weekprogram_active" THEN {"stove_weekprogram_changed"}
    ELSE IF capabilityId = "stove_eco_mode" THEN {"stove_eco_mode_changed"}
    ELSE IF capabilityId = "stove_pellets_actual" THEN {"stove_pellets_changed"}
    ELSE {}

\* Mutant of catchCapabilityFailure: the rejection is thrown on.
rethrowCapabilityFailure(D) == [D EXCEPT !.thrown = TRUE]

\* The catch of setCapabilityValueIfChanged (lines 746-748): logged.
catchCapabilityFailure(D) == D

\* The trigger functions catch the rejection of card.trigger (lines
\* 715-725, 797-840): a failing card is not fired.
setCapabilityValueIfChanged(D, capabilityId, value) ==
    IF D.thrown \/ D.caps[capabilityId] = value THEN D
    ELSE IF capabilityId \in D.failing THEN catchCapabilityFailure(D)
    ELSE [D EXCEPT !.caps[capabilityId] = value,
                   !.writes = @ \cup {capabilityId},
                   !.triggers = @ \cup (triggerCapabilityFlow(capabilityId) \ D.failing)]

\* The two capabilities that show the estimate.
publishPellets(D, value) ==
    setCapabilityValueIfChanged(
        setCapabilityValueIfChanged(D, "measure_stove_pellets", value),
        "stove_pellets_actual", value)

\* updatePelletsSetting (lines 499-506): the pellets_kg setting follows the
\* value; updateSettingsSafely does not catch a rejection of setSettings.
updatePelletsSettingDevice(D, value) ==
    IF D.thrown \/ D.setting = value THEN D
    ELSE IF "setSettings" \in D.failing THEN [D EXCEPT !.thrown = TRUE, !.wrote = TRUE]
    ELSE [D EXCEPT !.setting = value, !.wrote = TRUE]

\* setPelletsRemaining has brought the inventory to P2 (lines 481-497): with
\* the value held it only updates the setting; else it assigns the value,
\* writes the store, publishes the value and updates the setting.
withPellets(D, P2) ==
    IF D.thrown THEN D
    ELSE IF P2.rem = D.P.rem
    THEN updatePelletsSettingDevice([D EXCEPT !.P = P2], P2.rem)
    ELSE IF "setStoreValue" \in D.failing
    THEN [D EXCEPT !.P = P2, !.thrown = TRUE]
    ELSE updatePelletsSettingDevice(
             publishPellets([D EXCEPT !.P = P2,
                                      !.stored = @ \cup {"pelletsRemainingKg"}],
                            P2.rem),
             P2.rem)

\* Mutant of errorCodeChanged: every poll that reports a fault counts.
errorCodeChangedAlways(lastCode, errorCode) == TRUE

\* The test of line 690.
errorCodeChanged(lastCode, errorCode) == lastCode # errorCode

\* The catch of createErrorNotification (lines 710-712): logged.
catchNotificationFailure(D) == D

\* Lines 691-695: triggerErrorFlow, setWarning, createErrorNotification,
\* then the code and the message are tracked.  setWarning is awaited bare.
enterFaulted(D, errorNumber) ==
    LET D1 == [D EXCEPT !.triggers = @ \cup ({"stove_error"} \ D.failing)]
    IN  IF "setWarning" \in D.failing THEN [D1 EXCEPT !.thrown = TRUE]
        ELSE LET D2 == [D1 EXCEPT !.warning = formatErrorMessage(errorNumber),
                                  !.warned = TRUE]
                 D3 == IF "createNotification" \in D.failing
                       THEN catchNotificationFailure(D2)
                       ELSE [D2 EXCEPT !.notified = TRUE]
             IN  IF D3.thrown THEN D3
                 ELSE [D3 EXCEPT !.code = formatErrorCode(errorNumber),
                                 !.message = formatErrorMessage(errorNumber)]

\* Mutant of refreshMessage: the refresh notifies and triggers again.
refreshMessageNotifying(D, errorNumber) ==
    [D EXCEPT !.warning = formatErrorMessage(errorNumber),
              !.warned = TRUE,
              !.notified = TRUE,
              !.triggers = @ \cup {"stove_error"},
              !.message = formatErrorMessage(errorNumber)]

\* Lines 699-702: the code is the tracked one and the message differs.
refreshMessage(D, errorNumber) ==
    IF "setWarning" \in D.failing THEN [D EXCEPT !.thrown = TRUE]
    ELSE [D EXCEPT !.warning = formatErrorMessage(errorNumber),
                   !.warned = TRUE,
                   !.message = formatErrorMessage(errorNumber)]

\* Lines 666-670: leaving the fault.  unsetWarning is awaited bare.
leaveFaulted(D) ==
    IF D.thrown \/ D.code = <<>> THEN D
    ELSE IF "unsetWarning" \in D.failing THEN [D EXCEPT !.thrown = TRUE]
    ELSE [D EXCEPT !.warning = <<>>, !.code = <<>>, !.message = <<>>]

\* applyErrorState (lines 657-703).
applyErrorState(D, errorNumber, maxKg) ==
    IF D.thrown \/ errorNumber = Absent THEN D
    ELSE LET P1 == applyErrorStatePellets(D.P, errorNumber, maxKg)
             D1 == IF isHopperFault(errorNumber)
                   THEN withPellets([D EXCEPT !.P.hold = TRUE], P1)
                   ELSE [D EXCEPT !.P = P1]
         IN  IF errorNumber = 0
             THEN leaveFaulted(
                      setCapabilityValueIfChanged(
                          setCapabilityValueIfChanged(D1, "stove_error_state", "false"),
                          "stove_error_code", <<>>))
             ELSE LET D2 == setCapabilityValueIfChanged(
                                setCapabilityValueIfChanged(D1, "stove_error_code",
                                                            formatErrorCode(errorNumber)),
                                "stove_error_state", "true")
                  IN  IF D2.thrown THEN D2
                      ELSE IF errorCodeChanged(D2.code, formatErrorCode(errorNumber))
                      THEN enterFaulted(D2, errorNumber)
                      ELSE IF D2.message # formatErrorMessage(errorNumber)
                      THEN refreshMessage(D2, errorNumber)
                      ELSE D2

\* updatePelletsFromConsumption with its effects on the platform: the
\* baseline is assigned and stored (lines 442-443, 466-467); the first
\* report publishes the value held (lines 444-447), the later ones go
\* through setPelletsRemaining.
updatePelletsFromConsumptionDevice(D, consumptionKg, mode, maxKg) ==
    IF D.thrown THEN D
    ELSE IF "setStoreValue" \in D.failing
    THEN [D EXCEPT !.P.last = consumptionKg, !.thrown = TRUE]
    ELSE LET D1 == [D EXCEPT !.stored = @ \cup {"pelletsLastConsumptionKg"}]
             P2 == updatePelletsFromConsumption(D.P, consumptionKg, mode, maxKg)
         IN  IF D.P.last = Null
             THEN publishPellets([D1 EXCEPT !.P = P2], D.P.rem)
             ELSE withPellets([D1 EXCEPT !.P.last = consumptionKg], P2)

\* The loop over STATE_TO_CAPABILITY (lines 640-652), for the keys prg,
\* sp_temp, pellets, eco_mode and wprg, in the order of the map.  A sp_temp
\* that is no number (Null) is skipped by coerceValue.
applyStateCapabilities(D, status) ==
    LET Da == IF coerceBoolean(status.prg) = "undefined" THEN D
              ELSE setCapabilityValueIfChanged(D, "onoff", coerceBoolean(status.prg))
        Db == IF status.sp_temp < 0 THEN Da
              ELSE setCapabilityValueIfChanged(Da, "target_temperature", status.sp_temp)
        D1 == IF status.pellets = Absent THEN Db
              ELSE setCapabilityValueIfChanged(Db, "stove_pellets_actual", status.pellets)
        D2 == IF coerceBoolean(status.eco_mode) = "undefined" THEN D1
              ELSE setCapabilityValueIfChanged(D1, "stove_eco_mode",
                                               coerceBoolean(status.eco_mode))
    IN  IF coerceBoolean(status.wprg) = "undefined" THEN D2
        ELSE setCapabilityValueIfChanged(D2, "stove_weekprogram_active",
                                         coerceBoolean(status.wprg))

\* applyStatus (lines 605-655).
applyStatus(D, status, mode, maxKg) ==
    LET D0 == IF coerceBoolean(status.eco_editable) = "undefined" THEN D
              ELSE [D EXCEPT !.eco = (coerceBoolean(status.eco_editable) = "true")]
        D1 == applyErrorState(D0, status.fault, maxKg)
        D2 == IF status.consumption = Absent THEN D1
              ELSE updatePelletsFromConsumptionDevice(D1, status.consumption, mode, maxKg)
    IN  applyStateCapabilities(D2, status)

\* updateSettingsSafely (lines 527-534), on this.suppressSettingsUpdate: a
\* handler that called it leaves the flag false (finally), whatever it was.
updateSettingsSafely(called) ==
    IF called THEN FALSE ELSE suppressSettingsUpdate

\* The fields and the capability values a handler leaves; no handler sets
\* the language.
SetDevice(D) ==
    /\ UNCHANGED language
    /\ SetPellets(D.P)
    /\ lastErrorCode' = D.code
    /\ lastErrorMessage' = D.message
    /\ warning' = D.warning
    /\ ecoEditable' = D.eco
    /\ caps' = D.caps

\* A status document without any of the keys the model reads.
NoStatus ==
    [fault |-> Absent, consumption |-> Absent, nonce |-> <<>>,
     eco_editable |-> "absent", wprg |-> "absent", eco_mode |-> "absent",
     pellets |-> Absent, prg |-> "absent", sp_temp |-> Absent]

----------------------------------------------------------------------------
(* The poll timer.  T is the record [h, d, stray] of pollTimer,             *)
(* pollTimerDelay and strayTimers.                                          *)

TimerState == [h |-> pollTimer, d |-> pollTimerDelay, stray |-> strayTimers]

\* clearTimeout removes the timer when it is still pending and does nothing
\* to a timer that has fired.
stopPolling(T) ==
    IF T.h # "null" THEN [T EXCEPT !.h = "null"] ELSE T

\* setTimeout adds a timer and this.pollTimer names it; a pending timer
\* the field named before stays pending.
scheduleNextPoll(T, delaySeconds) ==
    [h |-> "pending",
     d |-> Max2(0, delaySeconds),
     stray |-> IF T.h = "pending" THEN T.stray + 1 ELSE T.stray]

startPolling(T) == scheduleNextPoll(stopPolling(T), 0)

\* Mutant of passFinally: the next poll is not scheduled.
passFinallyWithoutSchedule(T, interval) == T

\* The finally block of pollStatus (lines 599-602), on the timers.
passFinally(T, interval) == scheduleNextPoll(T, interval)

SetTimers(T) ==
    /\ pollTimer' = T.h
    /\ pollTimerDelay' = T.d
    /\ strayTimers' = T.stray

PendingTimers(T) == T.stray + (IF T.h = "pending" THEN 1 ELSE 0)

\* What is in flight: pending timers, passes and posts.
InFlight == PendingTimers(TimerState) + Len(passes) + posting

----------------------------------------------------------------------------
(* The stove client (src/lib/haassohn-api.ts).  A is the record [pin,       *)
(* nonce, hspin] of the session; api.hpin is md5(pin) wherever pin is set.  *)

ApiState == [pin |-> apiPin, nonce |-> nonce, hspin |-> hspin]

\* The MD5 digest of a string, as a string no other input yields.
md5(value) == <<"md5(">> \o value \o <<")">>

setNonce(A, newNonce) ==
    [A EXCEPT !.nonce = newNonce, !.hspin = md5(newNonce \o md5(A.pin))]

\* Mutant of setConfig: the session of the former PIN is kept.
setConfigKeepingSession(A, pin) == [A EXCEPT !.pin = pin]

\* new HaasSohnApi(address, pin) and setConfig(address, pin): no session.
setConfig(A, pin) == [pin |-> pin, nonce |-> <<>>, hspin |-> <<>>]

\* getStatus on a 200 response with a JSON body: meta.nonce, when it is a
\* non-empty string, starts a session.
getStatusResolved(A, status) ==
    IF status.nonce # <<>> THEN setNonce(A, status.nonce) ELSE A

\* JSON.stringify of a command payload.
stringify(payload) == <<"{", payload.key, ":">> \o payload.value \o <<"}">>

NoRequest == [method |-> "none", x_hs_pin |-> <<>>, body |-> <<>>]

\* The GET of getStatus: no headers, no body.
getRequest == [method |-> "GET", x_hs_pin |-> <<>>, body |-> <<>>]

\* Mutant of createHeaders: the hashed PIN is sent.
createHeadersWithHpin(A, body) == md5(A.pin)

\* The X-HS-PIN header of createHeaders: this.hspin ?? ''.
createHeaders(A, body) == A.hspin

\* The POST of postStatus.
postRequest(A, payload) ==
    [method |-> "POST", x_hs_pin |-> createHeaders(A, stringify(payload)),
     body |-> stringify(payload)]

\* Mutant of request: no hard deadline.
requestWithoutHardTimeout(reason) ==
    [reason |-> reason, hardTimeout |-> FALSE, to |-> address]

\* The request of a pass, pending: request() builds the URL from the
\* address held when it is called, arms the hard deadline
\* (haassohn-api.ts line 319) and settles once, by finish().
request(reason) == [reason |-> reason, hardTimeout |-> TRUE, to |-> address]

SetApi(A) ==
    /\ apiPin' = A.pin
    /\ nonce' = A.nonce
    /\ hspin' = A.hspin

sessionVars == <<apiPin, nonce, hspin>>

deviceVars == <<ecoEditable, lastErrorCode, lastErrorMessage, warning, caps,
                language>>

\* logCommandEcho (lines 912-948): the echo is compared with the status for
\* the log, or found older than 30 s, and dropped.
logCommandEcho(echo) == <<>>

\* Mutant of areValuesEquivalent: the tolerance of the numbers is one degree.
areValuesEquivalentWithinDegree(payload, status) ==
    IF payload.key = "sp_temp"
    THEN status.sp_temp >= 0 /\ Abs(status.sp_temp - payload.num) < Degrees(1)
    ELSE coerceBoolean(status[payload.key]) = payload.value[1]

\* areValuesEquivalent (lines 975-988) of the payload's value and the
\* status value under the payload's key.  The payload of sp_temp is a
\* number (payload.num), the payloads of prg, eco_mode and wprg are
\* booleans; the test of 0.001 is 2 half thousandths.  A key the status
\* lacks (line 931) coerces to undefined here.
areValuesEquivalent(payload, status) ==
    IF payload.key = "sp_temp"
    THEN status.sp_temp >= 0 /\ Abs(status.sp_temp - payload.num) < 2
    ELSE coerceBoolean(status[payload.key]) = payload.value[1]

\* What logCommandEcho logs for the echo, ageSeconds after the command was
\* recorded: nothing without an echo (line 913) or when it is older than
\* 30 s (lines 916-921), else the field as confirmed or as mismatched.
commandEchoLog(echo, status, ageSeconds) ==
    IF echo = <<>> THEN "none"
    ELSE IF ageSeconds > 30 THEN "expired"
    ELSE IF areValuesEquivalent(echo[1], status) THEN "confirmed"
    ELSE "mismatched"

----------------------------------------------------------------------------
(* History: what the last step did.  poll is the outcome of the pollStatus *)
(* call made in the step, passEnd the way a pass body ended in it, cmdDone *)
(* the way a sendCommand invocation ended in it, rejected whether a        *)
(* handler threw before doing anything (guard: why); fault and consumption *)
(* are read from the applied status; preRem and preLast are the inventory  *)
(* before the pass, midRem and midHold the inventory between               *)
(* applyErrorState and updatePelletsFromConsumption; preCode and preErrors *)
(* are lastErrorCode and errorCount before the pass; writes, triggers,     *)
(* warned and notified are what the pass did; sent is the HTTP request     *)
(* made in the step; stored are the keys of the store written, value is    *)
(* the value a manual override was called with (guard: "override"),        *)
(* preMessage is lastErrorMessage before the step, failing the platform    *)
(* calls that rejected in it.  In onSettings midRem and midHold are the    *)
(* inventory between the re-clamp and the override.  echoed is the echo a  *)
(* read-back pass found, age the seconds since its command was recorded    *)
(* and echo what logCommandEcho logged for it; to is the address the       *)
(* request of the pass was sent to.                                        *)

\* hopperFault follows the fault numbers the polls report: "standing" from a
\* poll that reports 21 or 26 until a poll reports another number, and
\* "overridden" once a manual override was made while it stood.
hopperFaultAfterPoll(errorNumber) ==
    IF errorNumber = Absent THEN hopperFault
    ELSE IF isHopperFault(errorNumber) THEN "standing" ELSE "none"

hopperFaultAfterOverride ==
    IF hopperFault = "standing" THEN "overridden" ELSE hopperFault

\* polledEcoEditable is the meta.eco_editable flag of the latest status
\* document that carried one.
polledEcoEditableAfterPoll(raw) ==
    IF coerceBoolean(raw) = "undefined" THEN polledEcoEditable ELSE coerceBoolean(raw)

Ev(op) ==
    [op |-> op, poll |-> "none", passEnd |-> "none", reason |-> "none",
     cmdDone |-> "none", fault |-> Absent, consumption |-> Absent,
     preRem |-> Null, preLast |-> Null, midRem |-> Null, midHold |-> FALSE,
     rejected |-> FALSE, guard |-> "none", status |-> NoStatus,
     preCode |-> <<>>, preErrors |-> 0, writes |-> {}, triggers |-> {},
     warned |-> FALSE, notified |-> FALSE, sent |-> NoRequest,
     stored |-> {}, value |-> Absent, preMessage |-> <<>>,
     failing |-> {}, echoed |-> <<>>, echo |-> "none", age |-> Absent,
     to |-> ""]

----------------------------------------------------------------------------
(* The state after construction: the field initialisers of the class       *)
(* (lines 195-211); the settings store is empty until onInit reads it.     *)

NoSettings ==
    [address |-> "", pin |-> <<>>, pollInterval |-> Absent,
     pellets_auto_reset |-> "none", pellets_max_kg |-> Absent,
     pellets_kg |-> Absent]

Init ==
    /\ phase = "constructed"
    /\ settings = NoSettings
    /\ address = ""
    /\ pollInterval = DEFAULT_POLL_INTERVAL
    /\ pollTimer = "null"
    /\ pollTimerDelay = 0
    /\ strayTimers = 0
    /\ pollInFlight = FALSE
    /\ passes = <<>>
    /\ posting = 0
    /\ errorCount = 0
    /\ available = TRUE
    /\ pelletsRemainingKg = Null
    /\ lastConsumptionKg = Null
    /\ pelletsAutoResetMode = "none"
    /\ pelletsMaxKg = Kg(DEFAULT_MAX_PELLETS_KG)
    /\ pelletsHoldAutoReset = FALSE
    /\ ecoEditable = TRUE
    /\ lastErrorCode = <<>>
    /\ lastErrorMessage = <<>>
    /\ warning = <<>>
    /\ caps = NoCaps
    /\ lastCommandPayload = <<>>
    /\ apiPin = <<>>
    /\ nonce = <<>>
    /\ hspin = <<>>
    /\ prefetching = <<>>
    /\ language = "en"
    /\ suppressSettingsUpdate = FALSE
    /\ settingsWrites = <<>>
    /\ event = Ev("construct")
    /\ hopperFault = "none"
    /\ polledEcoEditable = "none"

----------------------------------------------------------------------------
(* onInit: applySettings, initializePelletsState, startPolling.  The device *)
(* is paired with the settings s; the persistent store holds storedRem and  *)
(* storedCons (Absent when never written).  initializePelletsState          *)
(* publishes the initial estimate.                                          *)

OnInit(S, StoredRemaining, StoredConsumption) ==
    /\ phase = "constructed"
    /\ \E s \in S, storedRem \in StoredRemaining, storedCons \in StoredConsumption :
          LET P0 == initializePelletsState(storedRem, storedCons, s.pellets_kg,
                                           parsePelletsMaxKg(s.pellets_max_kg))
              D0 == publishPellets([Device EXCEPT !.P = P0], P0.rem)
          IN  /\ settings' = s
              /\ address' = s.address
              /\ pollInterval' = parsePollInterval(s.pollInterval)
              /\ pelletsAutoResetMode' = parsePelletsAutoResetMode(s.pellets_auto_reset)
              /\ pelletsMaxKg' = parsePelletsMaxKg(s.pellets_max_kg)
              /\ SetApi(setConfig(ApiState, s.pin))
              /\ SetDevice(D0)
              /\ event' = [Ev("onInit") EXCEPT !.writes = D0.writes,
                                                !.triggers = D0.triggers]
    /\ phase' = "running"
    /\ SetTimers(startPolling(TimerState))
    /\ UNCHANGED <<hopperFault, polledEcoEditable, pollInFlight, passes, posting, errorCount, available,
                   lastCommandPayload, prefetching>>
    /\ UNCHANGED writeVars

----------------------------------------------------------------------------
(* pollStatus *)

\* Mutant of Declines: no guard.
DeclinesNever == FALSE

\* The re-entrancy guard (lines 559-561).
Declines == pollInFlight

\* Mutant of pollStatusDeclined: the declined call schedules a poll.
pollStatusDeclinedRescheduling(T) == scheduleNextPoll(T, 0)

\* The return of line 560, on the timers.
pollStatusDeclined(T) == T

\* Mutant of catchErrorCount: the failure is not counted.
catchErrorCountKept(count) == count

\* this.errorCount += 1 (line 596).
catchErrorCount(count) == count + 1

\* Mutant of missingAddress: the address is not tested.
missingAddressIgnored(addr) == FALSE

\* The test of line 567 on this.api.getAddress().trim().
missingAddress(addr) == addr = ""

\* One call of pollStatus(reason) made with the timers in state T: declined
\* by the guard; or run to its end at once when the address is empty
\* (setUnavailable, then the finally block); or left awaiting api.getStatus.
\* this.api is set by onInit before any timer exists, so line 556 never returns.
PollStatusCall(T, reason, ev) ==
    IF Declines
    THEN /\ SetTimers(pollStatusDeclined(T))
         /\ event' = [ev EXCEPT !.poll = "declined",
                                !.cmdDone = IF reason = "command" THEN "ok" ELSE "none"]
         /\ UNCHANGED <<pollInFlight, passes, errorCount, available>>
    ELSE IF missingAddress(address)
    THEN /\ SetTimers(passFinally(T, pollInterval))
         /\ pollInFlight' = FALSE
         /\ available' = FALSE
         /\ event' = [ev EXCEPT !.poll = "started", !.passEnd = "noaddress",
                                !.reason = reason,
                                !.cmdDone = IF reason = "command" THEN "ok" ELSE "none"]
         /\ UNCHANGED <<passes, errorCount>>
    ELSE /\ SetTimers(T)
         /\ pollInFlight' = TRUE
         /\ passes' = Append(passes, request(reason))
         /\ event' = [ev EXCEPT !.poll = "started", !.reason = reason,
                                !.sent = getRequest]
         /\ UNCHANGED <<errorCount, available>>

\* The timer this.pollTimer names fires.
TimerFire ==
    /\ pollTimer = "pending"
    /\ PollStatusCall([TimerState EXCEPT !.h = "fired"], "poll", Ev("timer"))
    /\ UNCHANGED <<phase, posting, settings, hopperFault, polledEcoEditable, lastCommandPayload, prefetching>>
    /\ UNCHANGED configVars
    /\ UNCHANGED writeVars
    /\ UNCHANGED pelletVars
    /\ UNCHANGED deviceVars
    /\ UNCHANGED sessionVars

\* A pending timer that this.pollTimer no longer names fires.
StrayTimerFire ==
    /\ strayTimers > 0
    /\ PollStatusCall([TimerState EXCEPT !.stray = @ - 1], "poll", Ev("strayTimer"))
    /\ UNCHANGED <<phase, posting, settings, hopperFault, polledEcoEditable, lastCommandPayload, prefetching>>
    /\ UNCHANGED configVars
    /\ UNCHANGED writeVars
    /\ UNCHANGED pelletVars
    /\ UNCHANGED deviceVars
    /\ UNCHANGED sessionVars

RemoveAt(seq, i) == SubSeq(seq, 1, i - 1) \o SubSeq(seq, i + 1, Len(seq))

\* api.getStatus resolves with the status document st: the session nonce,
\* applyStatus, then errorCount = 0 and setAvailable, logCommandEcho for a
\* read-back pass, then the finally block.  The platform calls named by
\* failing reject during applyStatus; a rejection that is not caught ends
\* the try block and is counted by the catch block.
PassFinishAt(Statuses, Failing, Ages) ==
    \E i \in 1..Len(passes), st \in Statuses, failing \in Failing, age \in Ages :
      \E D2 \in {applyStatus([Device EXCEPT !.failing = failing], st,
                             pelletsAutoResetMode, pelletsMaxKg)} :
        LET P   == PelletState
            mid == applyErrorStatePellets(P, st.fault, pelletsMaxKg)
            logs == passes[i].reason = "command" /\ ~D2.thrown
        IN  /\ D2.thrown => errorCount < MaxErrors
            /\ SetDevice(D2)
            /\ SetApi(getStatusResolved(ApiState, st))
            /\ errorCount' = IF D2.thrown THEN catchErrorCount(errorCount) ELSE 0
            /\ available' = ~D2.thrown
            /\ lastCommandPayload' = IF logs
                                     THEN logCommandEcho(lastCommandPayload)
                                     ELSE lastCommandPayload
            /\ pollInFlight' = FALSE
            /\ passes' = RemoveAt(passes, i)
            /\ SetTimers(passFinally(TimerState, pollInterval))
            /\ event' = [Ev("apply") EXCEPT
                            !.passEnd = IF D2.thrown THEN "threw" ELSE "ok",
                            !.reason = passes[i].reason, !.to = passes[i].to,
                            !.cmdDone = IF passes[i].reason = "command" THEN "ok" ELSE "none",
                            !.fault = st.fault, !.consumption = st.consumption,
                            !.preRem = P.rem, !.preLast = P.last,
                            !.midRem = mid.rem, !.midHold = mid.hold,
                            !.status = st, !.preCode = lastErrorCode,
                            !.preMessage = lastErrorMessage,
                            !.preErrors = errorCount, !.failing = failing,
                            !.writes = D2.writes, !.triggers = D2.triggers,
                            !.stored = D2.stored,
                            !.warned = D2.warned, !.notified = D2.notified,
                            !.echoed = IF logs THEN lastCommandPayload ELSE <<>>,
                            !.age = IF logs /\ lastCommandPayload # <<>> THEN age
                                    ELSE Absent,
                            !.echo = IF logs
                                     THEN commandEchoLog(lastCommandPayload, st, age)
                                     ELSE "none"]
            /\ settings' = [settings EXCEPT !.pellets_kg = D2.setting]
            /\ hopperFault' = hopperFaultAfterPoll(st.fault)
            /\ polledEcoEditable' = polledEcoEditableAfterPoll(st.eco_editable)
            /\ suppressSettingsUpdate' = updateSettingsSafely(D2.wrote)
            /\ UNCHANGED <<phase, posting, prefetching, settingsWrites>>
            /\ UNCHANGED configVars

\* The pass when a read-back comes within the 30 s of its command.
PassFinish(Statuses, Failing) == PassFinishAt(Statuses, Failing, {0})

\* The pass when no platform call rejects.
PassFinishOk(Statuses) == PassFinish(Statuses, {{}})

\* The same pass taken in two steps around the await of this.setSettings
\* (line 530), for status documents with the consumption key only: there
\* applyErrorState and the capability loop do nothing, and the setSettings
\* of updatePelletsSetting is the last call of applyStatus.  First step:
\* api.getStatus resolves and applyStatus runs up to that await, with the
\* flag set by updateSettingsSafely.
PassWritesSettings(Statuses) ==
    \E i \in 1..Len(passes), st \in Statuses :
      \E D2 \in {applyStatus(Device, st, pelletsAutoResetMode, pelletsMaxKg)} :
        /\ st = [NoStatus EXCEPT !.consumption = st.consumption, !.nonce = st.nonce]
        /\ D2.wrote
        /\ SetDevice(D2)
        /\ SetApi(getStatusResolved(ApiState, st))
        /\ suppressSettingsUpdate' = TRUE
        /\ settingsWrites' = Append(settingsWrites,
                                    [reason |-> passes[i].reason, value |-> D2.setting])
        /\ passes' = RemoveAt(passes, i)
        /\ event' = [Ev("writeSettings") EXCEPT
                        !.reason = passes[i].reason,
                        !.consumption = st.consumption, !.status = st,
                        !.preRem = pelletsRemainingKg, !.preLast = lastConsumptionKg,
                        !.midRem = pelletsRemainingKg, !.midHold = pelletsHoldAutoReset,
                        !.preCode = lastErrorCode, !.preMessage = lastErrorMessage,
                        !.preErrors = errorCount,
                        !.writes = D2.writes, !.triggers = D2.triggers,
                        !.stored = D2.stored]
        /\ UNCHANGED <<phase, settings, hopperFault, polledEcoEditable, posting,
                       prefetching, lastCommandPayload, pollInFlight, errorCount,
                       available, pollTimer, pollTimerDelay, strayTimers>>
        /\ UNCHANGED configVars

\* Second step: this.setSettings resolves.  The finally block of
\* updateSettingsSafely clears the flag, and the pass ends (lines 588-602).
SettingsWritten ==
    /\ settingsWrites # <<>>
    /\ LET w == Head(settingsWrites)
       IN  /\ settings' = [settings EXCEPT !.pellets_kg = w.value]
           /\ suppressSettingsUpdate' = FALSE
           /\ settingsWrites' = Tail(settingsWrites)
           /\ errorCount' = 0
           /\ available' = TRUE
           /\ lastCommandPayload' = IF w.reason = "command"
                                    THEN logCommandEcho(lastCommandPayload)
                                    ELSE lastCommandPayload
           /\ pollInFlight' = FALSE
           /\ SetTimers(passFinally(TimerState, pollInterval))
           /\ event' = [Ev("settingsWritten") EXCEPT
                           !.passEnd = "ok", !.reason = w.reason,
                           !.cmdDone = IF w.reason = "command" THEN "ok" ELSE "none",
                           !.preErrors = errorCount]
    /\ UNCHANGED <<phase, posting, passes, hopperFault, polledEcoEditable, prefetching>>
    /\ UNCHANGED configVars
    /\ UNCHANGED pelletVars
    /\ UNCHANGED deviceVars
    /\ UNCHANGED sessionVars

\* The catch block and the finally block of pollStatus, for the pass i.
PassFails(i, op) ==
    /\ errorCount' = catchErrorCount(errorCount)
    /\ available' = FALSE
    /\ pollInFlight' = FALSE
    /\ passes' = RemoveAt(passes, i)
    /\ SetTimers(passFinally(TimerState, pollInterval))
    /\ event' = [Ev(op) EXCEPT
                    !.passEnd = "failed", !.reason = passes[i].reason,
                    !.cmdDone = IF passes[i].reason = "command" THEN "ok" ELSE "none",
                    !.preErrors = errorCount, !.preCode = lastErrorCode]
    /\ UNCHANGED <<phase, posting, settings, hopperFault, polledEcoEditable, lastCommandPayload, prefetching>>
    /\ UNCHANGED configVars
    /\ UNCHANGED writeVars
    /\ UNCHANGED pelletVars
    /\ UNCHANGED deviceVars
    /\ UNCHANGED sessionVars

\* api.getStatus rejects (transport error, aborted response, status code,
\* JSON).
PassFinishFail ==
    /\ errorCount < MaxErrors
    /\ \E i \in 1..Len(passes) : PassFails(i, "fetchFailed")

\* The hard deadline of the request expires (haassohn-api.ts line 319):
\* fail(new Error('Request timeout')), and api.getStatus rejects.
RequestTimeout ==
    /\ errorCount < MaxErrors
    /\ \E i \in 1..Len(passes) :
        /\ passes[i].hardTimeout
        /\ PassFails(i, "requestTimeout")

----------------------------------------------------------------------------
(* sendCommand (lines 881-892): record the echo, stopPolling, await          *)
(* api.postStatus, then pollStatus({reason: 'command'}).  api.postStatus     *)
(* (haassohn-api.ts lines 221-231) first awaits getStatus when it holds no   *)
(* session secret, then posts.                                               *)

\* Mutant of Rejects: the handler stops the poll timer before it throws.
RejectsAfterStopPolling(op, why) ==
    /\ event' = [Ev(op) EXCEPT !.rejected = TRUE, !.guard = why]
    /\ SetTimers(stopPolling(TimerState))
    /\ UNCHANGED <<phase, settings, hopperFault, polledEcoEditable, lastCommandPayload, prefetching, posting>>
    /\ UNCHANGED <<pollInFlight, passes, errorCount, available>>
    /\ UNCHANGED configVars
    /\ UNCHANGED writeVars
    /\ UNCHANGED pelletVars
    /\ UNCHANGED deviceVars
    /\ UNCHANGED sessionVars

\* A handler throws before it has done anything.
Rejects(op, why) ==
    /\ event' = [Ev(op) EXCEPT !.rejected = TRUE, !.guard = why]
    /\ UNCHANGED <<phase, settings, hopperFault, polledEcoEditable, lastCommandPayload, prefetching, posting>>
    /\ UNCHANGED <<pollTimer, pollTimerDelay, strayTimers, pollInFlight, passes,
                   errorCount, available>>
    /\ UNCHANGED configVars
    /\ UNCHANGED writeVars
    /\ UNCHANGED pelletVars
    /\ UNCHANGED deviceVars
    /\ UNCHANGED sessionVars

\* With an empty address the request throws before it is made
\* (normalizeAddress), and sendCommand ends with that error.
sendCommand(payload, ev) ==
    /\ PendingTimers(stopPolling(TimerState)) + Len(passes) + posting < MaxPending
    /\ lastCommandPayload' = <<payload>>
    /\ SetTimers(stopPolling(TimerState))
    /\ IF address = ""
       THEN /\ posting' = posting
            /\ prefetching' = prefetching
            /\ event' = [ev EXCEPT !.cmdDone = "error"]
       ELSE IF hspin = <<>>
       THEN /\ posting' = posting + 1
            /\ prefetching' = Append(prefetching, payload)
            /\ event' = [ev EXCEPT !.sent = getRequest]
       ELSE /\ posting' = posting + 1
            /\ prefetching' = prefetching
            /\ event' = [ev EXCEPT !.sent = postRequest(ApiState, payload)]
    /\ UNCHANGED <<phase, settings, hopperFault, polledEcoEditable, pollInFlight, passes, errorCount,
                   available>>
    /\ UNCHANGED configVars
    /\ UNCHANGED writeVars
    /\ UNCHANGED pelletVars
    /\ UNCHANGED deviceVars
    /\ UNCHANGED sessionVars

\* handleOnOff with a boolean value: an unguarded command.
SendCommand ==
    /\ phase = "running"
    /\ sendCommand([key |-> "prg", value |-> <<"true">>, num |-> Absent],
                   Ev("sendCommand"))

\* handleOnOff (lines 842-848) with any value.
HandleOnOff(Values) ==
    /\ phase = "running"
    /\ \E value \in Values :
        IF coerceBoolean(value) = "undefined"
        THEN Rejects("handleOnOff", "invalid")
        ELSE sendCommand([key |-> "prg", value |-> <<coerceBoolean(value)>>,
                          num |-> Absent],
                         Ev("handleOnOff"))

\* handleWeekProgram (lines 872-878).
HandleWeekProgram(Values) ==
    /\ phase = "running"
    /\ \E value \in Values :
        IF coerceBoolean(value) = "undefined"
        THEN Rejects("handleWeekProgram", "invalid")
        ELSE sendCommand([key |-> "wprg", value |-> <<coerceBoolean(value)>>,
                          num |-> Absent],
                         Ev("handleWeekProgram"))

\* Mutant of weekProgramBlocks: no guard.
weekProgramBlocksNever(capabilities) == FALSE

\* The guard of handleTargetTemperature (line 851).
weekProgramBlocks(capabilities) == capabilities.stove_weekprogram_active = "true"

\* handleTargetTemperature (lines 850-859); Absent is a value that is no number.
HandleTargetTemperature(Values) ==
    /\ phase = "running"
    /\ \E value \in Values :
        IF weekProgramBlocks(caps)
        THEN Rejects("handleTargetTemperature", "weekprogram")
        ELSE IF value = Absent
        THEN Rejects("handleTargetTemperature", "invalid")
        ELSE sendCommand([key |-> "sp_temp", value |-> Digits(value),
                          num |-> Degrees(value)],
                         Ev("handleTargetTemperature"))

\* The guard of handleEcoMode (line 862).
ecoModeBlocks(editable) == ~editable

\* handleEcoMode (lines 861-870).
HandleEcoMode(Values) ==
    /\ phase = "running"
    /\ \E value \in Values :
        IF ecoModeBlocks(ecoEditable)
        THEN Rejects("handleEcoMode", "eco")
        ELSE IF coerceBoolean(value) = "undefined"
        THEN Rejects("handleEcoMode", "invalid")
        ELSE sendCommand([key |-> "eco_mode", value |-> <<coerceBoolean(value)>>,
                          num |-> Absent],
                         Ev("handleEcoMode"))

\* The getStatus of api.postStatus resolves with the status document st:
\* the session nonce, then the POST.
PrefetchOk(Statuses) ==
    /\ \E i \in 1..Len(prefetching), st \in Statuses :
        /\ SetApi(getStatusResolved(ApiState, st))
        /\ prefetching' = RemoveAt(prefetching, i)
        /\ IF address = ""
           THEN /\ posting' = posting - 1
                /\ event' = [Ev("prefetchOk") EXCEPT !.cmdDone = "error", !.status = st]
           ELSE /\ posting' = posting
                /\ event' = [Ev("prefetchOk") EXCEPT
                                !.status = st,
                                !.sent = postRequest(getStatusResolved(ApiState, st),
                                                     prefetching[i])]
    /\ UNCHANGED <<phase, settings, hopperFault, polledEcoEditable, lastCommandPayload>>
    /\ UNCHANGED <<pollTimer, pollTimerDelay, strayTimers, pollInFlight, passes,
                   errorCount, available>>
    /\ UNCHANGED configVars
    /\ UNCHANGED writeVars
    /\ UNCHANGED pelletVars
    /\ UNCHANGED deviceVars

\* Mutant of postStatusFetchRejected: the POST is sent all the same.
postStatusFetchRejectedPosting(A, payload) == postRequest(A, payload)

\* The request postStatus makes once its getStatus has rejected: none, the
\* await of line 223 throws.
postStatusFetchRejected(A, payload) == NoRequest

\* The getStatus of api.postStatus rejects: sendCommand propagates the error.
PrefetchFail ==
    /\ \E i \in 1..Len(prefetching) :
        /\ prefetching' = RemoveAt(prefetching, i)
        /\ posting' = posting - 1
        /\ event' = [Ev("prefetchFailed") EXCEPT
                        !.cmdDone = "error",
                        !.sent = postStatusFetchRejected(ApiState, prefetching[i])]
    /\ UNCHANGED <<phase, settings, hopperFault, polledEcoEditable, lastCommandPayload>>
    /\ UNCHANGED <<pollTimer, pollTimerDelay, strayTimers, pollInFlight, passes,
                   errorCount, available>>
    /\ UNCHANGED configVars
    /\ UNCHANGED writeVars
    /\ UNCHANGED pelletVars
    /\ UNCHANGED deviceVars
    /\ UNCHANGED sessionVars

\* The POST of api.postStatus gets a 200 response: the read-back call of
\* pollStatus.
PostOk ==
    /\ posting > Len(prefetching)
    /\ posting' = posting - 1
    /\ PollStatusCall(TimerState, "command", Ev("postOk"))
    /\ UNCHANGED <<phase, settings, hopperFault, polledEcoEditable, lastCommandPayload, prefetching>>
    /\ UNCHANGED configVars
    /\ UNCHANGED writeVars
    /\ UNCHANGED pelletVars
    /\ UNCHANGED deviceVars
    /\ UNCHANGED sessionVars

\* The POST of api.postStatus fails: sendCommand propagates the error.
PostFail ==
    /\ posting > Len(prefetching)
    /\ posting' = posting - 1
    /\ event' = [Ev("postFailed") EXCEPT !.cmdDone = "error"]
    /\ UNCHANGED <<phase, settings, hopperFault, polledEcoEditable, pollTimer, pollTimerDelay,
                   strayTimers, pollInFlight, passes, errorCount, available,
                   lastCommandPayload, prefetching>>
    /\ UNCHANGED configVars
    /\ UNCHANGED writeVars
    /\ UNCHANGED pelletVars
    /\ UNCHANGED deviceVars
    /\ UNCHANGED sessionVars

----------------------------------------------------------------------------
(* The language of the platform is changed: this.homey.__ (line 684)       *)
(* translates to the new language from now on.                             *)

LanguageChange(Languages) ==
    /\ phase = "running"
    /\ \E l \in Languages \ {language} : language' = l
    /\ event' = Ev("languageChange")
    /\ UNCHANGED <<phase, settings, hopperFault, polledEcoEditable, lastCommandPayload,
                   prefetching, ecoEditable, lastErrorCode, lastErrorMessage, warning,
                   caps>>
    /\ UNCHANGED schedVars
    /\ UNCHANGED configVars
    /\ UNCHANGED writeVars
    /\ UNCHANGED pelletVars
    /\ UNCHANGED sessionVars

----------------------------------------------------------------------------
(* onDeleted (lines 267-270) *)

OnDeleted ==
    /\ phase = "running"
    /\ phase' = "deleted"
    /\ SetTimers(stopPolling(TimerState))
    /\ event' = Ev("onDeleted")
    /\ UNCHANGED <<settings, hopperFault, polledEcoEditable, pollInFlight, passes, posting, errorCount,
                   available, lastCommandPayload, prefetching>>
    /\ UNCHANGED configVars
    /\ UNCHANGED writeVars
    /\ UNCHANGED pelletVars
    /\ UNCHANGED deviceVars
    /\ UNCHANGED sessionVars

----------------------------------------------------------------------------
(* onSettings (lines 226-261).  The platform calls it with the new settings *)
(* and the keys that differ from the stored ones, and stores the new        *)
(* settings when it returns; it keeps the old ones when it throws.          *)

ChangedKeys(new) == {k \in DOMAIN settings : new[k] # settings[k]}

\* The stored settings with the edited keys replaced.
Edited(edit) ==
    [k \in DOMAIN settings |-> IF k \in DOMAIN edit THEN edit[k] ELSE settings[k]]

\* The test of line 237.
onSettingsSuppressed == suppressSettingsUpdate

\* The return of line 238: nothing is applied, and the platform stores the
\* new settings.
OnSettingsDropped(new) ==
    /\ settings' = new
    /\ event' = [Ev("onSettings") EXCEPT !.guard = "suppressed"]
    /\ UNCHANGED <<hopperFault, polledEcoEditable, apiPin, nonce, hspin>>
    /\ UNCHANGED <<pollTimer, pollTimerDelay, strayTimers>>
    /\ UNCHANGED configVars
    /\ UNCHANGED writeVars
    /\ UNCHANGED pelletVars
    /\ UNCHANGED deviceVars

OnSettings(Edits) ==
    /\ phase = "running"
    /\ \E edit \in Edits :
        LET new == Edited(edit)
            changedKeys == ChangedKeys(new)
            restart == changedKeys \cap {"address", "pin", "pollInterval"} # {}
            \* applySettings reads every key of newSettings
            mode1 == IF restart THEN parsePelletsAutoResetMode(new.pellets_auto_reset)
                     ELSE pelletsAutoResetMode
            max1  == IF restart THEN parsePelletsMaxKg(new.pellets_max_kg)
                     ELSE pelletsMaxKg
            mode2 == IF "pellets_auto_reset" \in changedKeys
                     THEN parsePelletsAutoResetMode(new.pellets_auto_reset) ELSE mode1
            max2  == IF "pellets_max_kg" \in changedKeys
                     THEN parsePelletsMaxKg(new.pellets_max_kg) ELSE max1
            reclamp == "pellets_max_kg" \in changedKeys /\ pelletsRemainingKg # Null
            P1    == IF reclamp
                     THEN setPelletsRemaining(PelletState, pelletsRemainingKg, max2)
                     ELSE PelletState
            override == "pellets_kg" \in changedKeys
            throws == override /\ new.pellets_kg = Absent
            P2    == IF override /\ ~throws
                     THEN handlePelletsOverride(P1, new.pellets_kg, max2) ELSE P1
            D1    == withPellets(Device, P1)
            D2    == withPellets(D1, P2)
            T     == IF restart THEN startPolling(TimerState) ELSE TimerState
        IN  /\ changedKeys # {}
            /\ PendingTimers(T) + Len(passes) + posting <= MaxPending
            /\ IF onSettingsSuppressed THEN OnSettingsDropped(new)
               ELSE /\ suppressSettingsUpdate' = updateSettingsSafely(D2.wrote)
                    /\ UNCHANGED settingsWrites
                    /\ address' = IF restart THEN new.address ELSE address
                    /\ pollInterval' = IF restart THEN parsePollInterval(new.pollInterval)
                                       ELSE pollInterval
                    /\ pelletsAutoResetMode' = mode2
                    /\ pelletsMaxKg' = max2
                    /\ SetDevice(D2)
                    /\ IF restart THEN SetApi(setConfig(ApiState, new.pin))
                       ELSE UNCHANGED sessionVars
                    /\ SetTimers(T)
                    /\ settings' = IF throws
                                   THEN updatePelletsSetting(settings, reclamp, P1.rem)
                                   ELSE IF override THEN new
                                   ELSE updatePelletsSetting(new, reclamp, P1.rem)
                    /\ hopperFault' = IF override /\ ~throws THEN hopperFaultAfterOverride
                                      ELSE hopperFault
                    /\ UNCHANGED polledEcoEditable
                    /\ event' = [Ev("onSettings") EXCEPT
                                    !.preRem = pelletsRemainingKg,
                                    !.midRem = P1.rem, !.midHold = P1.hold,
                                    !.value = IF override THEN new.pellets_kg ELSE Absent,
                                    !.guard = IF override THEN "override" ELSE "none",
                                    !.reason = IF restart THEN "restart" ELSE "none",
                                    !.rejected = throws,
                                    !.writes = D2.writes, !.triggers = D2.triggers,
                                    !.stored = D2.stored]
    /\ UNCHANGED <<phase, pollInFlight, passes, posting, errorCount, available,
                   lastCommandPayload, prefetching>>

----------------------------------------------------------------------------
(* setPelletsFromFlow and the measure_stove_pellets listener:               *)
(* handlePelletsOverride (lines 471-479).  A value that is no number makes  *)
(* it throw before anything is changed.                                     *)

Override(Values) ==
    /\ phase = "running"
    /\ \E value \in Values :
        IF value = Absent
        THEN /\ event' = [Ev("override") EXCEPT !.rejected = TRUE,
                                                !.guard = "override",
                                                !.preRem = pelletsRemainingKg,
                                                !.midRem = pelletsRemainingKg,
                                                !.midHold = pelletsHoldAutoReset]
             /\ UNCHANGED <<settings, hopperFault, polledEcoEditable,
                            suppressSettingsUpdate>>
             /\ UNCHANGED pelletVars
             /\ UNCHANGED deviceVars
        ELSE LET D2 == withPellets(Device,
                           handlePelletsOverride(PelletState, value, pelletsMaxKg))
             IN  /\ hopperFault' = hopperFaultAfterOverride
                 /\ suppressSettingsUpdate' = updateSettingsSafely(D2.wrote)
                 /\ UNCHANGED polledEcoEditable
                 /\ SetDevice(D2)
                 /\ settings' = updatePelletsSetting(settings, TRUE, D2.P.rem)
                 /\ event' = [Ev("override") EXCEPT !.preRem = pelletsRemainingKg,
                                                    !.midRem = pelletsRemainingKg,
                                                    !.midHold = pelletsHoldAutoReset,
                                                    !.value = value,
                                                    !.guard = "override",
                                                    !.writes = D2.writes,
                                                    !.triggers = D2.triggers,
                                                    !.stored = D2.stored]
    /\ UNCHANGED <<phase, lastCommandPayload, prefetching, settingsWrites>>
    /\ UNCHANGED schedVars
    /\ UNCHANGED configVars
    /\ UNCHANGED sessionVars

----------------------------------------------------------------------------
(* Inputs of the scheduling specification: the address and the poll        *)
(* interval are edited, the status documents carry no inventory data.      *)

SchedSettings ==
    [address : {"", "stove"}, pin : {<<"1234">>}, pollInterval : {Absent, 5},
     pellets_auto_reset : {"none"}, pellets_max_kg : {Absent},
     pellets_kg : {Absent}]

SchedEdits ==
    {[address |-> a] : a \in {"", "stove"}}
        \cup {[pollInterval |-> i] : i \in {Absent, 5}}

SchedStatuses == {[NoStatus EXCEPT !.fault = 0, !.nonce = <<"n1">>]}

Next ==
    \/ OnInit(SchedSettings, {Absent}, {Absent})
    \/ TimerFire
    \/ StrayTimerFire
    \/ PassFinishOk(SchedStatuses)
    \/ PassFinishFail
    \/ RequestTimeout
    \/ SendCommand
    \/ PrefetchOk(SchedStatuses)
    \/ PrefetchFail
    \/ PostOk
    \/ PostFail
    \/ OnSettings(SchedEdits)
    \/ OnDeleted

Spec == Init /\ [][Next]_vars

----------------------------------------------------------------------------
(* Inputs of the inventory specification: consumption reports (cumulative, *)
(* with a non-integer value and a drop), fault numbers, edits of the       *)
(* inventory settings and manual overrides.                                *)

PelletSettings ==
    [address : {"stove"}, pin : {<<"1234">>}, pollInterval : {Absent},
     pellets_auto_reset : {"none", "reset15"},
     pellets_max_kg : {Absent, Kg(10)},
     pellets_kg : {Absent, Kg(20)}]

PelletEdits ==
    {[pellets_auto_reset |-> m] : m \in {"reset15", "reset30", "bogus"}}
        \cup {[pellets_max_kg |-> x] : x \in {0 - Kg(4), 25}}
        \cup {[pellets_kg |-> Absent]}
        \cup {[pellets_max_kg |-> Kg(10), pellets_kg |-> Kg(20)]}

PelletStatuses ==
    {[NoStatus EXCEPT !.fault = f, !.consumption = c] :
        f \in {Absent, 0, 5, 21, 26}, c \in {Absent, Kg(100), 217}}

PelletOverrides == {Absent, 0, 9}

PelletNext ==
    \/ OnInit(PelletSettings, {Absent, Kg(40)}, {Absent, Kg(100)})
    \/ TimerFire
    \/ PassFinishOk(PelletStatuses)
    \/ OnSettings(PelletEdits)
    \/ Override(PelletOverrides)

PelletSpec == Init /\ [][PelletNext]_vars

----------------------------------------------------------------------------
(* Inputs of the publication specification: status documents that carry    *)
(* the stove's own pellets value (key pellets, mapped to                    *)
(* stove_pellets_actual) and consumption reports, and manual overrides.     *)

PublishSettings ==
    [address : {"stove"}, pin : {<<"1234">>}, pollInterval : {Absent},
     pellets_auto_reset : {"none"}, pellets_max_kg : {Absent},
     pellets_kg : {Absent, Kg(20)}]

PublishStatuses ==
    {[NoStatus EXCEPT !.pellets = p, !.consumption = c] :
        p \in {Absent, Kg(10)}, c \in {Absent, Kg(100), Kg(105)}}

PublishOverrides == {Absent, Kg(10), Kg(12)}

PublishNext ==
    \/ OnInit(PublishSettings, {Absent}, {Absent, Kg(100)})
    \/ TimerFire
    \/ PassFinishOk(PublishStatuses)
    \/ Override(PublishOverrides)

PublishSpec == Init /\ [][PublishNext]_vars

----------------------------------------------------------------------------
(* Inputs of the failure specification: passes during which one platform   *)
(* call rejects (a capability write, a flow card, the notification, the    *)
(* warning, the store, the settings).                                      *)

FailureSettings ==
    [address : {"stove"}, pin : {<<"1234">>}, pollInterval : {Absent},
     pellets_auto_reset : {"none"}, pellets_max_kg : {Absent},
     pellets_kg : {Absent}]

FailureStatuses ==
    {[NoStatus EXCEPT !.fault = f, !.consumption = c, !.eco_mode = e, !.wprg = w] :
        f \in {0, 5}, c \in {Absent, Kg(100)},
        e \in {"true", "false"}, w \in {"true", "false"}}

\* The platform calls whose rejection the code catches.
CaughtFailures ==
    {"stove_eco_mode", "stove_error_code", "stove_eco_mode_changed", "stove_error",
     "createNotification"}

\* The platform calls the code awaits bare.
UncaughtFailures == {"setStoreValue", "setSettings", "setWarning", "unsetWarning"}

Failures == {{}} \cup {{f} : f \in CaughtFailures \cup UncaughtFailures}

FailureNext ==
    \/ OnInit(FailureSettings, {Absent}, {Absent})
    \/ TimerFire
    \/ PassFinish(FailureStatuses, Failures)
    \/ PassFinishFail

FailureSpec == Init /\ [][FailureNext]_vars

----------------------------------------------------------------------------
(* Inputs of the read-back specification: on/off and target-temperature    *)
(* commands, status documents that carry prg and sp_temp (the value sent,  *)
(* values 0.0005 and 0.001 above it, another value, a value that is no     *)
(* number, no key), read-back passes within and after the 30 s.            *)

EchoSettings ==
    [address : {"stove"}, pin : {<<"1234">>}, pollInterval : {Absent},
     pellets_auto_reset : {"none"}, pellets_max_kg : {Absent},
     pellets_kg : {Absent}]

EchoStatuses ==
    {[NoStatus EXCEPT !.nonce = <<"n1">>, !.prg = p, !.sp_temp = t] :
        p \in {"absent", "true", "0"},
        t \in {Absent, Null, Degrees(21), Degrees(21) + 1, Degrees(21) + 2,
               Degrees(20)}}

EchoAges == {0, 31}

EchoNext ==
    \/ OnInit(EchoSettings, {Absent}, {Absent})
    \/ TimerFire
    \/ PassFinishAt(EchoStatuses, {{}}, EchoAges)
    \/ SendCommand
    \/ HandleTargetTemperature({21})
    \/ PrefetchOk({[NoStatus EXCEPT !.nonce = <<"n1">>]})
    \/ PostOk

EchoSpec == Init /\ [][EchoNext]_vars

----------------------------------------------------------------------------
(* Inputs of the validation specification: the four command handlers,      *)
(* each with a value it accepts and a value it does not.                   *)

ValidationSettings ==
    [address : {"stove"}, pin : {<<"1234">>}, pollInterval : {Absent},
     pellets_auto_reset : {"none"}, pellets_max_kg : {Absent},
     pellets_kg : {Absent}]

ValidationStatuses == {[NoStatus EXCEPT !.nonce = <<"n1">>, !.prg = "true"]}

ValidationNext ==
    \/ OnInit(ValidationSettings, {Absent}, {Absent})
    \/ TimerFire
    \/ PassFinishOk(ValidationStatuses)
    \/ HandleOnOff({"true", "maybe"})
    \/ HandleTargetTemperature({Absent, 21})
    \/ HandleEcoMode({"off", "maybe"})
    \/ HandleWeekProgram({"1", "null"})
    \/ PrefetchOk(ValidationStatuses)
    \/ PostOk
    \/ PostFail

ValidationSpec == Init /\ [][ValidationNext]_vars

----------------------------------------------------------------------------
(* Inputs of the settings-write specification: passes that follow the      *)
(* consumption and write the pellets_kg setting, taken in one step and in  *)
(* two steps around the await of setSettings; edits of the address by the  *)
(* operator, and manual overrides, which may arrive in between.            *)

SuppressSettings ==
    [address : {"stove"}, pin : {<<"1234">>}, pollInterval : {Absent},
     pellets_auto_reset : {"none"}, pellets_max_kg : {Absent},
     pellets_kg : {Absent}]

SuppressStatuses ==
    {[NoStatus EXCEPT !.consumption = c] : c \in {Kg(100), Kg(102), Kg(104)}}

SuppressEdits == {[address |-> a] : a \in {"stove", "stove2"}}

SuppressNext ==
    \/ OnInit(SuppressSettings, {Absent}, {Absent})
    \/ TimerFire
    \/ PassFinishOk(SuppressStatuses)
    \/ PassWritesSettings(SuppressStatuses)
    \/ SettingsWritten
    \/ OnSettings(SuppressEdits)
    \/ Override({Kg(10)})

SuppressSpec == Init /\ [][SuppressNext]_vars

----------------------------------------------------------------------------
(* Inputs of the reconfiguration specification: the operator edits the     *)
(* address while requests are in flight; status documents carry a nonce    *)
(* and the eco mode; commands.                                             *)

ConfigSettings ==
    [address : {"stove"}, pin : {<<"1234">>}, pollInterval : {Absent},
     pellets_auto_reset : {"none"}, pellets_max_kg : {Absent},
     pellets_kg : {Absent}]

ConfigEdits == {[address |-> a] : a \in {"stove", "stove2"}}

ConfigStatuses ==
    {[NoStatus EXCEPT !.nonce = n, !.eco_mode = e] :
        n \in {<<"n1">>, <<"n2">>}, e \in {"true", "false"}}

ConfigNext ==
    \/ OnInit(ConfigSettings, {Absent}, {Absent})
    \/ TimerFire
    \/ StrayTimerFire
    \/ PassFinishOk(ConfigStatuses)
    \/ PassFinishFail
    \/ OnSettings(ConfigEdits)
    \/ SendCommand
    \/ PrefetchOk(ConfigStatuses)
    \/ PostOk
    \/ PostFail

ConfigSpec == Init /\ [][ConfigNext]_vars

----------------------------------------------------------------------------
(* The scheduling specification with the fairness the hard deadline of a   *)
(* request gives: the timer of haassohn-api.ts line 319 fires.             *)

LiveSpec == Init /\ [][Next]_vars /\ WF_vars(RequestTimeout)

----------------------------------------------------------------------------
(* Inputs of the error-state specification: polls that report fault        *)
(* numbers (none, zero, known, unknown, four digits), and changes of the   *)
(* platform's language.                                                    *)

ErrorSettings ==
    [address : {"stove"}, pin : {<<"1234">>}, pollInterval : {Absent},
     pellets_auto_reset : {"none", "reset15"}, pellets_max_kg : {Absent},
     pellets_kg : {Absent}]

ErrorStatuses ==
    {[NoStatus EXCEPT !.fault = f, !.consumption = c] :
        f \in {Absent, 0, 5, 21, 99, 1000}, c \in {Absent, Kg(100)}}

ErrorLanguages == {"en", "nl"}

ErrorNext ==
    \/ OnInit(ErrorSettings, {Absent}, {Absent})
    \/ TimerFire
    \/ PassFinishOk(ErrorStatuses)
    \/ PassFinishFail
    \/ LanguageChange(ErrorLanguages)

ErrorSpec == Init /\ [][ErrorNext]_vars

----------------------------------------------------------------------------
(* Inputs of the guarded-command specification: polls that report the      *)
(* weekly program and the eco_editable flag, and the two guarded handlers. *)

GuardSettings ==
    [address : {"stove"}, pin : {<<"1234">>}, pollInterval : {Absent},
     pellets_auto_reset : {"none"}, pellets_max_kg : {Absent},
     pellets_kg : {Absent}]

GuardStatuses ==
    {[NoStatus EXCEPT !.nonce = <<"n1">>, !.wprg = w, !.eco_editable = e, !.eco_mode = m] :
        w \in {"absent", "true", "false"}, e \in {"absent", "true", "0"},
        m \in {"true"}}

GuardNext ==
    \/ OnInit(GuardSettings, {Absent}, {Absent})
    \/ TimerFire
    \/ PassFinishOk(GuardStatuses)
    \/ HandleTargetTemperature({Absent, 21})
    \/ HandleEcoMode({"true", "maybe"})
    \/ PrefetchOk(GuardStatuses)
    \/ PostOk
    \/ PostFail

GuardSpec == Init /\ [][GuardNext]_vars

----------------------------------------------------------------------------
(* Inputs of the session specification: status documents with and without *)
(* a nonce, edits of the PIN, commands.                                    *)

SessionSettings ==
    [address : {"stove"}, pin : {<<>>, <<"1234">>}, pollInterval : {Absent},
     pellets_auto_reset : {"none"}, pellets_max_kg : {Absent},
     pellets_kg : {Absent}]

SessionEdits == {[pin |-> x] : x \in {<<"1234">>, <<"9999">>}}

SessionStatuses ==
    {[NoStatus EXCEPT !.nonce = n] : n \in {<<>>, <<"n1">>, <<"n2">>}}

SessionNext ==
    \/ OnInit(SessionSettings, {Absent}, {Absent})
    \/ TimerFire
    \/ StrayTimerFire
    \/ PassFinishOk(SessionStatuses)
    \/ PassFinishFail
    \/ SendCommand
    \/ HandleTargetTemperature({21})
    \/ PrefetchOk(SessionStatuses)
    \/ PrefetchFail
    \/ PostOk
    \/ PostFail
    \/ OnSettings(SessionEdits)

SessionSpec == Init /\ [][SessionNext]_vars

----------------------------------------------------------------------------
(* Claims on the scheduler (specification Spec) *)

HasPass(reason) == \E i \in 1..Len(passes) : passes[i].reason = reason

\* C1: at most one reconciliation pass (a pollStatus body between setting
\* and clearing pollInFlight) is active at any time.
C1_AtMostOnePass == Len(passes) <= 1

\* A pollStatus call was declined by the guard while a pass was in flight.
C1_Witness ==
    /\ event.poll = "declined"
    /\ pollInFlight
    /\ Len(passes) = 1

\* C2: in every reachable state at most one poll timer is pending.
C2_AtMostOneTimer == PendingTimers(TimerState) <= 1

\* C3: every pass that starts ends, whatever its outcome, by scheduling the
\* next poll after the configured pollInterval.
C3_PassEndSchedulesNextPoll ==
    event.passEnd # "none" =>
        /\ pollTimer = "pending"
        /\ pollTimerDelay = pollInterval

\* A pass whose fetch failed has ended and the next poll is scheduled.
C3_Witness ==
    /\ event.passEnd = "failed"
    /\ errorCount > 0
    /\ pollTimer = "pending"
    /\ pollTimerDelay = pollInterval

\* C4: once a sendCommand invocation has finished, normally or with the
\* error of the post, a poll timer is pending or a pass is in flight.
C4_PollingContinuesAfterCommand ==
    (phase = "running" /\ event.cmdDone # "none") =>
        (PendingTimers(TimerState) > 0 \/ pollInFlight)

\* C5: every successful post is followed by one read-back pass, and no
\* timer-driven pass is in flight from the moment sendCommand stops the
\* timer to the end of the read-back pass.
C5_ReadBackDoesNotRacePoll ==
    /\ (event.op = "postOk" => event.poll = "started")
    /\ ((posting > 0 \/ HasPass("command")) => ~HasPass("poll"))

\* C6: after onDeleted, and after the pass and the command that were in
\* flight at that moment have finished, no poll timer is pending.
C6_NoTimerAfterTeardown ==
    (phase = "deleted" /\ passes = <<>> /\ posting = 0) =>
        PendingTimers(TimerState) = 0

----------------------------------------------------------------------------
(* Claims on the inventory (specification PelletSpec) *)

ConsumptionUpdate ==
    /\ event.op = "apply"
    /\ event.consumption # Absent
    /\ event.preLast # Null

\* The report was lower than or equal to lastConsumptionKg.
NotIncreasedReport == ConsumptionUpdate /\ event.consumption <= event.preLast

\* The refill value of the configured mode, within the configured maximum.
RefillValue ==
    IF pelletsAutoResetMode = "reset15" THEN Kg(15) ELSE Kg(30)

RefillWithinMax == IF RefillValue < pelletsMaxKg THEN RefillValue ELSE pelletsMaxKg

\* C8 as stated: a consumption report lower than or equal to
\* lastConsumptionKg never changes pelletsRemainingKg.
C8_NotIncreasedReportKeepsRemaining ==
    NotIncreasedReport => pelletsRemainingKg = event.midRem

\* C8, amended: such a report leaves pelletsRemainingKg unchanged, unless it
\* is 0, an auto-reset mode is configured and the hold-flag is not set: then
\* it becomes the refill value, at most pelletsMaxKg.
C8_NotIncreasedReportKeepsOrRefills ==
    NotIncreasedReport =>
        IF event.midRem = 0 /\ pelletsAutoResetMode # "none" /\ ~event.midHold
        THEN pelletsRemainingKg = RefillWithinMax
        ELSE pelletsRemainingKg = event.midRem

\* A report lower than lastConsumptionKg left a non-zero remaining value as it was.
C8_Witness ==
    /\ ConsumptionUpdate
    /\ event.consumption < event.preLast
    /\ event.midRem > 0
    /\ pelletsRemainingKg = event.midRem

\* The update brought the clamped remaining value to exactly 0.
ClampedToZero ==
    /\ ConsumptionUpdate
    /\ \/ pelletsMaxKg = 0
       \/ event.midRem - Max2(0, event.consumption - event.preLast) <= 0

\* C9 as stated: with reset15 (reset30), an update that brings the clamped
\* value to 0 makes remaining 15 (30) without the hold-flag and leaves it 0
\* with the hold-flag, for every pelletsMaxKg.
C9_AutoResetToRefillValue ==
    (ClampedToZero /\ pelletsAutoResetMode # "none") =>
        IF event.midHold THEN pelletsRemainingKg = 0
        ELSE pelletsRemainingKg = RefillValue

\* C9, amended: remaining becomes the refill value clamped to pelletsMaxKg,
\* min(15, pelletsMaxKg) (min(30, pelletsMaxKg)), and stays 0 with the hold-flag.
C9_AutoResetToRefillWithinMax ==
    (ClampedToZero /\ pelletsAutoResetMode # "none") =>
        IF event.midHold THEN pelletsRemainingKg = 0
        ELSE pelletsRemainingKg = RefillWithinMax

\* A report consumed what remained and the inventory snapped to 15 kg.
C9_Witness ==
    /\ ClampedToZero
    /\ pelletsAutoResetMode = "reset15"
    /\ ~event.midHold
    /\ event.midRem > 0
    /\ pelletsRemainingKg = Kg(15)

\* An auto-reset happened in the pass.
AutoResetFired == ClampedToZero /\ pelletsRemainingKg > 0

----------------------------------------------------------------------------
(* Claims on the error state (specification ErrorSpec) *)

\* The pass applied a status whose fault number is not zero and whose code
\* differs from the code tracked before the pass.
FaultCodeChanged ==
    /\ event.op = "apply"
    /\ event.fault # Absent
    /\ event.fault # 0
    /\ formatErrorCode(event.fault) # event.preCode

\* The pass applied a status that reports the tracked fault code, with a
\* message text other than the tracked one.
MessageOnly ==
    /\ event.op = "apply"
    /\ event.fault # Absent
    /\ event.fault # 0
    /\ formatErrorCode(event.fault) = event.preCode
    /\ formatErrorMessage(event.fault) # event.preMessage

\* C11: a pass fires the stove_error trigger and creates a notification
\* exactly when it reports a non-zero fault whose code differs from the code
\* tracked before it, and it then raises the warning; a pass that reports the
\* tracked code again fires nothing, and sets the warning only to refresh
\* the message text.
C11_FaultEffectsOncePerCodeChange ==
    event.op = "apply" =>
        /\ ("stove_error" \in event.triggers) = FaultCodeChanged
        /\ event.notified = FaultCodeChanged
        /\ event.warned = (FaultCodeChanged \/ MessageOnly)
        /\ FaultCodeChanged => warning = formatErrorMessage(event.fault)

\* A poll reported the fault that the poll before it had reported, and
\* fired nothing.
C11_Witness ==
    /\ event.op = "apply"
    /\ event.fault = 5
    /\ event.preCode = formatErrorCode(5)
    /\ "stove_error" \notin event.triggers
    /\ ~event.notified
    /\ warning = formatErrorMessage(5)

\* C18: after a pass whose status reports the fault number zero or no fault
\* number, lastErrorCode and lastErrorMessage are null and the warning is
\* cleared.
C18_NoFaultClearsErrorState ==
    (event.op = "apply" /\ (event.fault = Absent \/ event.fault = 0)) =>
        /\ lastErrorCode = <<>>
        /\ lastErrorMessage = <<>>
        /\ warning = <<>>

\* C26: a pass that reports the tracked fault code with a message text
\* other than lastErrorMessage sets the warning to the new text and
\* replaces lastErrorMessage, creates no notification and fires no error
\* trigger.
C26_MessageOnlyRefresh ==
    MessageOnly =>
        /\ warning = formatErrorMessage(event.fault)
        /\ lastErrorMessage = formatErrorMessage(event.fault)
        /\ lastErrorCode = event.preCode
        /\ event.warned
        /\ ~event.notified
        /\ "stove_error" \notin event.triggers

\* Fault 5 was tracked with its English text; after a change of language a
\* poll reported fault 5 again and the warning shows the Dutch text.
C26_Witness ==
    /\ MessageOnly
    /\ event.fault = 5
    /\ language = "nl"
    /\ event.preMessage = <<"F", "0", "0", "5", ": ", "en", "/", "errors.", "5">>
    /\ warning = <<"F", "0", "0", "5", ": ", "nl", "/", "errors.", "5">>
    /\ ~event.notified

----------------------------------------------------------------------------
(* Claim on the whole pass (specification PelletSpec) *)

\* C12: applying again the status document a pass has just applied writes
\* no capability and fires no flow trigger.
C12_SecondApplyWritesNothing ==
    event.op = "apply" =>
        LET again == applyStatus(Device, event.status, pelletsAutoResetMode, pelletsMaxKg)
        IN  /\ again.writes = {}
            /\ again.triggers = {}

----------------------------------------------------------------------------
(* Claim on the guarded commands (specification GuardSpec) *)

\* C13: a target temperature change while stove_weekprogram_active is true,
\* and an eco mode change while the last polled meta.eco_editable flag is
\* false, throw, send no request, leave the poll timers as they are and
\* leave the pending command echo as it is.
C13_GuardedWritesRejected ==
    [][((event'.op = "handleTargetTemperature" /\ caps.stove_weekprogram_active = "true")
          \/ (event'.op = "handleEcoMode" /\ polledEcoEditable = "false"))
        => /\ event'.rejected
           /\ event'.sent = NoRequest
           /\ UNCHANGED <<pollTimer, pollTimerDelay, strayTimers>>
           /\ UNCHANGED <<lastCommandPayload, posting, prefetching>>]_vars

\* A target temperature change was rejected for the weekly program while a
\* poll timer was pending and the echo of an earlier command was held.
C13_Witness ==
    /\ event.op = "handleTargetTemperature"
    /\ event.guard = "weekprogram"
    /\ event.rejected
    /\ pollTimer = "pending"
    /\ lastCommandPayload # <<>>

----------------------------------------------------------------------------
(* Claims on the session (specification SessionSpec) *)

\* The session secret for the configured PIN and the nonce held.
SessionSecret == md5(nonce \o md5(apiPin))

\* C14: every POST carries a non-empty X-HS-PIN header equal to
\* hash(nonce + hash(pin)) for the configured PIN and the latest nonce, and
\* none is sent while no nonce has been observed.
C14_PostCarriesSessionSecret ==
    event.sent.method = "POST" =>
        /\ nonce # <<>>
        /\ event.sent.x_hs_pin # <<>>
        /\ event.sent.x_hs_pin = SessionSecret

\* seq holds sub as a run of consecutive tokens.
Contains(seq, sub) ==
    \E i \in 0..(Len(seq) - Len(sub)) : SubSeq(seq, i + 1, i + Len(sub)) = sub

\* C15: no request carries the PIN or hash(pin): a GET has no header and no
\* body, the X-HS-PIN header of a POST is empty or the session secret, and
\* the body of a POST is the command payload, without the PIN.
C15_NoPinOnTheWire ==
    /\ event.sent.method = "GET" =>
          (event.sent.x_hs_pin = <<>> /\ event.sent.body = <<>>)
    /\ event.sent.method = "POST" =>
          /\ event.sent.x_hs_pin \in {<<>>, SessionSecret}
          /\ event.sent.x_hs_pin # apiPin \/ apiPin = <<>>
          /\ event.sent.x_hs_pin # md5(apiPin)
          /\ apiPin # <<>> => ~Contains(event.sent.body, apiPin)
          /\ ~Contains(event.sent.body, md5(apiPin))

\* A POST went out with the session secret of the PIN set by a settings
\* edit and of the second nonce observed.
C15_Witness ==
    /\ event.sent.method = "POST"
    /\ apiPin = <<"9999">>
    /\ nonce = <<"n2">>
    /\ event.sent.x_hs_pin = md5(<<"n2">> \o md5(<<"9999">>))

----------------------------------------------------------------------------
(* More claims on the scheduler (specifications Spec and LiveSpec) *)

\* C16: a pass whose fetch fails ends with the device unavailable and
\* errorCount one higher; a pass whose fetch succeeds ends with
\* errorCount = 0 and the device available.
C16_AvailabilityTracksFetch ==
    /\ event.passEnd = "failed" =>
          (~available /\ errorCount = event.preErrors + 1)
    /\ event.passEnd = "ok" => (available /\ errorCount = 0)

\* A second fetch in a row failed.
C16_Witness ==
    /\ event.passEnd = "failed"
    /\ event.preErrors = 1
    /\ errorCount = 2
    /\ ~available

\* C17: once no sendCommand invocation is in progress (no post awaited, no
\* read-back pass in flight), no command echo is held.
C17_EchoDiscardedAfterCommand ==
    (posting = 0 /\ ~HasPass("command")) => lastCommandPayload = <<>>

\* C19: a pollStatus call that finds a pass in flight makes no request,
\* leaves errorCount, availability, inventory, error state, capabilities
\* and echo as they are, leaves the pass in flight and schedules no timer.
C19_DeclinedCallChangesNothing ==
    [][event'.poll = "declined"
        => /\ event'.sent = NoRequest
           /\ UNCHANGED <<errorCount, available, lastCommandPayload>>
           /\ UNCHANGED pelletVars
           /\ UNCHANGED deviceVars
           /\ UNCHANGED <<pollInFlight, passes>>
           /\ Len(passes) = 1
           /\ strayTimers' <= strayTimers
           /\ pollTimer' = "pending" => (pollTimer = "pending" /\ event'.op # "timer")]_vars

\* The read-back call of a command was declined while a pass was in flight
\* and the echo of the command was held.
C19_Witness ==
    /\ event.op = "postOk"
    /\ event.poll = "declined"
    /\ Len(passes) = 1
    /\ lastCommandPayload # <<>>

\* C20: every pass that starts finishes: pollInFlight returns to false.
\* (errorCount < MaxErrors: the passes the bound of the model lets fail.)
C20_PassEventuallyFinishes ==
    (pollInFlight /\ errorCount < MaxErrors) ~> ~pollInFlight

\* A pass was ended by the hard deadline of its request.
C20_Witness ==
    /\ event.op = "requestTimeout"
    /\ event.passEnd = "failed"
    /\ ~pollInFlight

----------------------------------------------------------------------------
(* More claims on the inventory (specification PelletSpec) *)

\* The pass applied the first consumption report: no baseline was held.
FirstReport ==
    /\ event.op = "apply"
    /\ event.consumption # Absent
    /\ event.preLast = Null

\* C21: the first consumption report only sets lastConsumptionKg to the
\* reported value; pelletsRemainingKg is as applyErrorState left it, for
\* every auto-reset mode and every remaining value.
C21_FirstReportOnlyBaselines ==
    FirstReport =>
        /\ lastConsumptionKg = event.consumption
        /\ pelletsRemainingKg = event.midRem
        /\ pelletsHoldAutoReset = event.midHold

\* With reset15 and remaining 0 without the hold-flag, where a later report
\* would refill, the first report left remaining at 0.
C21_Witness ==
    /\ FirstReport
    /\ pelletsAutoResetMode = "reset15"
    /\ event.midRem = 0
    /\ ~event.midHold
    /\ pelletsMaxKg > 0
    /\ pelletsRemainingKg = 0
    /\ lastConsumptionKg = event.consumption

\* remaining - max(0, c - lastConsumptionKg) for the report applied, in half kg.
ExactRemaining ==
    event.midRem - Max2(0, event.consumption - event.preLast)

\* C22: a consumption report that is not the first one and leaves more than
\* 0 makes remaining clamp(remaining - max(0, c - lastConsumptionKg), 0,
\* maxKg), also for a non-integer c, and lastConsumptionKg becomes c.
C22_RemainingFollowsConsumption ==
    (ConsumptionUpdate /\ ExactRemaining > 0) =>
        /\ pelletsRemainingKg = Min2(pelletsMaxKg, Max2(0, ExactRemaining))
        /\ lastConsumptionKg = event.consumption

\* The pass applied a status that reports the hopper fault whose code was
\* tracked before the pass: no transition.
SteadyHopperFault ==
    /\ event.op = "apply"
    /\ event.fault # Absent
    /\ isHopperFault(event.fault)
    /\ event.preCode = formatErrorCode(event.fault)

\* C23: a poll that reports the hopper fault already tracked does not force
\* remaining to 0 again: a value set by a manual override while the fault is
\* reported, and the hold-flag the override cleared, are kept.
C23_HopperEffectOncePerTransition ==
    SteadyHopperFault =>
        /\ event.midRem = event.preRem
        /\ event.preRem > 0 => ~event.midHold

\* The step was a manual override: the flow action or the capability
\* listener (override), or a pellets_kg settings edit (onSettings).
ManualOverride == event.guard = "override"

\* The override left the inventory as it was, and wrote nothing when the
\* re-clamp before it had changed nothing.
OverrideRejected ==
    /\ event.rejected
    /\ pelletsRemainingKg = event.midRem
    /\ pelletsHoldAutoReset = event.midHold
    /\ event.midRem = event.preRem => (event.stored = {} /\ event.writes = {})

----------------------------------------------------------------------------
(* Claim on the publication of the estimate (specification PublishSpec) *)

\* C25: setPelletsRemaining, called by a manual override, writes neither the
\* store nor a capability and fires no trigger when the clamped value is the
\* one held; else it writes the store and the two pellets capabilities and
\* fires stove_pellets_changed.
C25_PublishedOnRealChange ==
    (event.op = "override" /\ ~event.rejected) =>
        IF pelletsRemainingKg = event.preRem
        THEN /\ event.stored = {}
             /\ event.writes = {}
             /\ event.triggers = {}
        ELSE /\ event.stored = {"pelletsRemainingKg"}
             /\ event.writes = {"measure_stove_pellets", "stove_pellets_actual"}
             /\ event.triggers = {"stove_pellets_changed"}

----------------------------------------------------------------------------
(* More claims on the session (specification SessionSpec) *)

\* The step resolved a status fetch (of a pass or of postStatus) whose
\* meta.nonce is a non-empty string.
FetchedNonce ==
    /\ event.op \in {"apply", "prefetchOk"}
    /\ event.status.nonce # <<>>

\* C27: the session secret is null iff the nonce held is null, and else is
\* hash(nonce + hash(pin)) for the nonce held and the PIN configured;
\* setConfig leaves both null, and a fetch that resolves with a non-empty
\* meta.nonce sets both.
C27_SessionInvariant ==
    /\ (hspin = <<>>) = (nonce = <<>>)
    /\ hspin # <<>> => hspin = md5(nonce \o md5(apiPin))
    /\ (event.op = "onSettings" /\ event.reason = "restart") =>
          (nonce = <<>> /\ hspin = <<>>)
    /\ FetchedNonce =>
          (nonce = event.status.nonce /\ hspin = md5(event.status.nonce \o md5(apiPin)))

\* After a PIN edit had reset the session, a fetch set the nonce and the
\* secret of the new PIN.
C27_Witness ==
    /\ event.op = "apply"
    /\ event.status.nonce = <<"n1">>
    /\ apiPin = <<"9999">>
    /\ settings.pin = <<"9999">>
    /\ nonce = <<"n1">>
    /\ hspin = md5(<<"n1">> \o md5(<<"9999">>))

\* C28: the client never retries.  A getStatus call makes one request; a
\* postStatus call makes at most one fetch and then at most one POST; a
\* failed request is followed by no request and its error reaches the
\* caller (the pass ends as failed, the command ends with the error); a
\* failed forced fetch means no POST.
C28_ClientNeverRetries ==
    /\ (event.poll = "started" /\ event.passEnd = "none") => event.sent = getRequest
    /\ event.op = "fetchFailed" =>
          (event.sent = NoRequest /\ event.passEnd = "failed")
    /\ event.op \in {"prefetchFailed", "postFailed"} =>
          (event.sent = NoRequest /\ event.cmdDone = "error")
    /\ event.op = "prefetchOk" => event.sent.method = "POST"
    /\ event.op \in {"apply", "onSettings", "strayTimer"} /\ event.poll # "started" =>
          event.sent = NoRequest
    /\ Len(prefetching) <= posting

\* The forced fetch of a command failed: the command ended with the error
\* and no POST was made.
C28_Witness ==
    /\ event.op = "prefetchFailed"
    /\ event.cmdDone = "error"
    /\ event.sent = NoRequest
    /\ hspin = <<>>
    /\ lastCommandPayload # <<>>

----------------------------------------------------------------------------
(* Claims on failing platform calls (specification FailureSpec) *)

\* C29: a pass whose fetch succeeded does not mark the device unavailable
\* and does not increment errorCount, whatever fails in its later steps
\* (store, settings, warning).
C29_OnlyFetchFailureCounts ==
    event.op = "apply" =>
        /\ errorCount <= event.preErrors
        /\ event.preErrors = 0 => available

\* The capability the loop over STATE_TO_CAPABILITY writes for a status key
\* holds the value of the applied status.
Mapped(capabilityId, raw) == caps[capabilityId] = coerceBoolean(raw)

\* C30: when a capability write, a flow card or the notification fails
\* during a pass whose fetch succeeded, the capabilities whose write does
\* not fail are written, the error state is tracked, and the pass ends as
\* successful.
C30_SideEffectFailuresIsolated ==
    (event.op = "apply" /\ event.failing \subseteq CaughtFailures) =>
        /\ event.passEnd = "ok"
        /\ available
        /\ errorCount = 0
        /\ "stove_eco_mode" \notin event.failing =>
              Mapped("stove_eco_mode", event.status.eco_mode)
        /\ Mapped("stove_weekprogram_active", event.status.wprg)
        /\ event.fault = 0 => (lastErrorCode = <<>> /\ warning = <<>>)
        /\ event.fault # 0 =>
              /\ lastErrorCode = formatErrorCode(event.fault)
              /\ warning = formatErrorMessage(event.fault)
              /\ caps.stove_error_state = "true"

\* The write of stove_eco_mode failed; stove_weekprogram_active, next in the
\* loop, was written and the pass ended as successful.
C30_Witness ==
    /\ event.op = "apply"
    /\ event.failing = {"stove_eco_mode"}
    /\ ~Mapped("stove_eco_mode", event.status.eco_mode)
    /\ "stove_weekprogram_active" \in event.writes
    /\ Mapped("stove_weekprogram_active", event.status.wprg)
    /\ event.passEnd = "ok"

----------------------------------------------------------------------------
(* Claims on the pass without an address (specification Spec) *)

\* C31: a pass that finds the configured address empty marks the device
\* unavailable, makes no fetch, changes neither errorCount nor the inventory
\* nor the error state, and schedules the next poll.
C31_EmptyAddressFailsFast ==
    [][(event'.poll = "started" /\ address' = "") =>
          /\ event'.passEnd = "noaddress"
          /\ event'.sent = NoRequest
          /\ passes' = passes
          /\ ~available'
          /\ ~pollInFlight'
          /\ errorCount' = errorCount
          /\ UNCHANGED pelletVars
          /\ UNCHANGED errorVars
          /\ caps' = caps
          /\ pollTimer' = "pending"
          /\ pollTimerDelay' = pollInterval']_vars

\* A pass found the address empty after a fetch had failed: the failure
\* count is as the failed fetch left it and a poll is scheduled.
C31_Witness ==
    /\ event.poll = "started"
    /\ event.passEnd = "noaddress"
    /\ address = ""
    /\ errorCount > 0
    /\ ~available
    /\ pollTimer = "pending"

----------------------------------------------------------------------------
(* Claims on the command read-back (specification EchoSpec) *)

\* A read-back pass ended within the 30 s of the command whose echo it found.
ReadBack ==
    /\ event.op = "apply"
    /\ event.reason = "command"
    /\ event.passEnd = "ok"
    /\ event.echoed # <<>>
    /\ event.age <= 30

\* The status carries the echoed key with an equivalent value: a number
\* less than 0.001 from the number sent, or a value that coerces to the
\* boolean sent.
EchoMatches ==
    LET payload == event.echoed[1]
        st      == event.status
    IN  IF payload.key = "sp_temp"
        THEN \E d \in {0 - 1, 0, 1} : st.sp_temp = payload.num + d
        ELSE \/ payload.value = <<"true">> /\ st[payload.key] \in {"true", "1", "yes", "on"}
             \/ payload.value = <<"false">> /\ st[payload.key] \in {"false", "0", "no", "off"}

\* C32: in a read-back pass within the 30 s window the field of the pending
\* payload is logged as confirmed iff the status carries the key with a
\* type-aware equivalent value, and as mismatched otherwise; the command
\* invocation does not fail either way.
C32_ReadBackClassification ==
    ReadBack =>
        /\ event.echo = (IF EchoMatches THEN "confirmed" ELSE "mismatched")
        /\ event.cmdDone = "ok"
        /\ lastCommandPayload = <<>>

\* sp_temp 21 was sent and the read-back reported 20: logged as mismatched,
\* the command ended well.
C32_Witness ==
    /\ ReadBack
    /\ event.echoed[1].key = "sp_temp"
    /\ event.echoed[1].num = Degrees(21)
    /\ event.status.sp_temp = Degrees(20)
    /\ event.echo = "mismatched"
    /\ event.cmdDone = "ok"

----------------------------------------------------------------------------
(* Claims on the validation of commands (specification ValidationSpec) *)

\* The echo, when there is one, holds a boolean or a number.
EchoIsTyped ==
    \/ lastCommandPayload = <<>>
    \/ /\ lastCommandPayload[1].key = "sp_temp"
       /\ lastCommandPayload[1].num >= 0
    \/ /\ lastCommandPayload[1].key \in {"prg", "eco_mode", "wprg"}
       /\ lastCommandPayload[1].value \in {<<"true">>, <<"false">>}

\* C33: a command handler called with a value it does not accept throws
\* before anything happens: no request is sent, the poll timer is not
\* stopped and no echo is recorded; what is recorded and sent is typed.
C33_InvalidCommandRejected ==
    /\ []EchoIsTyped
    /\ [][(event'.rejected /\ event'.guard = "invalid") =>
             /\ event'.sent = NoRequest
             /\ event'.cmdDone = "none"
             /\ UNCHANGED <<pollTimer, pollTimerDelay, strayTimers>>
             /\ UNCHANGED <<pollInFlight, passes, posting, prefetching>>
             /\ UNCHANGED lastCommandPayload
             /\ UNCHANGED <<caps, available, errorCount>>]_vars

\* A handler rejected a value while the poll timer was pending and while
\* the echo of an earlier command was pending: both still are.
C33_Witness ==
    /\ event.rejected
    /\ event.guard = "invalid"
    /\ event.op = "handleOnOff"
    /\ pollTimer = "pending"
    /\ lastCommandPayload # <<>>
    /\ lastCommandPayload[1].key = "sp_temp"

----------------------------------------------------------------------------
(* Claims on the published inventory (specification PublishSpec) *)

\* C34: at the end of every successful pass and after every manual override
\* the capabilities measure_stove_pellets and stove_pellets_actual equal
\* pelletsRemainingKg, also for status documents that carry a pellets key.
C34_PublishedEqualsEstimate ==
    (\/ event.op = "apply" /\ event.passEnd = "ok"
     \/ event.op = "override" /\ ~event.rejected) =>
        /\ caps.measure_stove_pellets = pelletsRemainingKg
        /\ caps.stove_pellets_actual = pelletsRemainingKg

----------------------------------------------------------------------------
(* Claims on the settings writes (specification SuppressSpec) *)

\* C35: the suppress flag is set exactly while a setSettings of the device
\* itself is in progress, and a settings change of the operator is always
\* applied by onSettings (the address in use is the address stored), also
\* when it arrives while a pass is writing settings.
C35_OperatorChangeAlwaysApplied ==
    /\ suppressSettingsUpdate = (settingsWrites # <<>>)
    /\ event.op = "onSettings" => address = settings.address

----------------------------------------------------------------------------
(* Claims on reconfiguration (specification ConfigSpec) *)

\* C36: the status response to a fetch that was started before the address
\* was changed neither sets the session nonce and secret nor is applied to
\* the capabilities.
C36_StaleResponseIgnored ==
    [][(event'.op = "apply" /\ event'.to # address') =>
          /\ UNCHANGED <<nonce, hspin>>
          /\ UNCHANGED caps]_vars

====
